---- MODULE Spec2Model ----
(***************************************************************************)
(* Runtime supervision layer of mpv-web-client:                            *)
(*   - the API-servers process registry (src/src/api_servers.rs),          *)
(*   - the frontend packages repository                                    *)
(*     (src/src/frontend/pkg/repository.rs),                               *)
(*   - the shutdown coordinator: main (src/src/main.rs) and the accept     *)
(*     loop of serve (src/src/server.rs).                                  *)
(* Each component has its own next-state relation and specification; the   *)
(* variables of the other components stay unchanged in each.               *)
(***************************************************************************)
EXTENDS Naturals, Integers, Sequences, FiniteSets, TLC

VARIABLES
  \* ---- process registry (ApiServersService) ----
  instances,          \* HashMap<String, ApiServerInstance>, as a set of entries
  logs_join_handles,  \* Vec<JoinHandle<()>>: child ids whose writer task was pushed
  children,           \* every OS process launched by spawn, in launch order
  logs_dir,           \* the logs directory: paths, inodes, archives
  svc,                \* the registry call holding the service lock, if any
  ncalls,             \* number of spawn/stop calls made so far
  latest,             \* per name: port of its latest successful spawn that no
                      \* stop call on the name has followed (0: none)
  ret,                \* what the last finished registry call returned
  \* ---- packages repository (PackagesRepository) ----
  installed,          \* Option<Package>: cached installed package
  temp,               \* Option<Package>: cached temporary package
  home_manifest,      \* <project home>/pkg_manifest.toml on disk
  temp_dir,           \* <temp>/.mwc/frontend on disk (staging directory)
  frontend_dir,       \* <project home>/frontend/<version>/ content directories
  inst,               \* the install_package call in progress (or finished)
  installs,           \* install_package calls started: how many, and whether any
                      \* passed force_outdated = true
  \* ---- shutdown coordinator (main, serve) ----
  args,               \* Args: the two idle-shutdown command line arguments
  coordinator,        \* serve: state of the accept loop, listener, result
  wait,               \* the wait_for_shutdown_condition future of the current
                      \* iteration of the accept loop
  net,                \* connections waiting in the listener's backlog; counts
                      \* of refused connections, requests and signals so far
  conns,              \* the connections accepted so far, in accept order
  clock,              \* seconds elapsed: while Running since serve was called,
                      \* since the last accept and since the last request;
                      \* since the loop left Running; since the registry's
                      \* shutdown was called
  main,               \* main: where it is after serve, what it returned
  \* ---- request handlers over the repository (service) ----
  served,             \* the file serve_frontend last opened, and how far the
                      \* body of its response has been streamed from it
  checked,            \* what the last latest-release check answered
  updates,            \* the frontend-update requests handled so far, and what
                      \* became of the last one
  \* ---- Semver ----
  cmp,                \* a pair of versions and the result of comparing them
  parsed,             \* a string and what Semver::from_string made of it
  tar,                \* files, the archive compress_files made of them and
                      \* the directory extract_archive unpacked it into
  bind                \* get_tcp_listener: the bind attempts made, the result

regVars == <<instances, logs_join_handles, children, logs_dir, svc, ncalls, latest, ret>>
pkgVars == <<installed, temp, home_manifest, temp_dir, frontend_dir, inst, installs>>
srvVars == <<args, coordinator, wait, net, conns, clock, main>>
hdlVars == <<served, checked, updates>>
fnVars == <<cmp, parsed, tar, bind>>
vars == <<instances, logs_join_handles, children, logs_dir, svc, ncalls, latest, ret,
          installed, temp, home_manifest, temp_dir, frontend_dir, inst, installs,
          args, coordinator, wait, net, conns, clock, main, served, checked, updates,
          cmp, parsed, tar, bind>>

(***************************************************************************)
(* Bounds of the model                                                     *)
(***************************************************************************)
\* registry calls (spawn + stop) made in one run
MaxCalls == 3
\* bytes written to pipes, by all children together, in one run
MaxBytes == 1
\* install_package calls made in one run
MaxInstalls == 2

Names == {"a", "b"}
Ports == {4000, 4001}
Streams == {"stdout", "stderr"}

(***************************************************************************)
(* Process registry                                                        *)
(***************************************************************************)
LOCAL_SERVER_IP_ADDR == "127.0.0.1"

\* format!("{}:{}", LOCAL_SERVER_IP_ADDR, server_args.port)
Address(port) == LOCAL_SERVER_IP_ADDR \o ":" \o ToString(port)

\* (format!("mwa_{}_stdout", name), format!("mwa_{}_stderr", name))
get_output_stream_filenames(name) ==
  [stdout |-> "mwa_" \o name \o "_stdout", stderr |-> "mwa_" \o name \o "_stderr"]

\* format!("{}_logs_archive.tar.gz", &name)
ArchiveName(name) == name \o "_logs_archive.tar.gz"

NoCall == [op |-> "idle", name |-> "", child |-> 0, pc |-> ""]
NoRet == [op |-> "none", name |-> "", child |-> 0, res |-> ""]

\* HashMap::insert: the entry of an equal key is replaced
HashMapInsertKeepOld(m, name, instance) ==
  m \cup {[name |-> name, address |-> instance.address,
           local |-> instance.local, handle |-> instance.handle]}
HashMapInsert(m, name, instance) ==
  {e \in m : e.name # name}
    \cup {[name |-> name, address |-> instance.address,
           local |-> instance.local, handle |-> instance.handle]}

\* HashMap::remove: the map without the key
HashMapRemoveNothing(m, name) == m
HashMapRemove(m, name) == {e \in m : e.name # name}

HashMapContains(m, name) == \E e \in m : e.name = name
HashMapGet(m, name) == CHOOSE e \in m : e.name = name

\* self.instances.iter(): the (name, instance) pairs of the map
server_instances == instances

\* OpenOptions create(true).write(true) (no truncate, no append): the file at
\* `path` is created empty when absent, and kept as it is when present
OpenForWrite(dir, path) ==
  IF path \in DOMAIN dir.paths
    THEN dir
    ELSE [dir EXCEPT !.paths = dir.paths @@ (path :> (Len(dir.inodes) + 1)),
                     !.inodes = Append(dir.inodes, <<>>)]

\* the k-th byte a writer task copies lands at offset k of its open file
WriteAt(content, k, tag) ==
  IF k <= Len(content) THEN [content EXCEPT ![k] = tag] ELSE Append(content, tag)

NewChild(name, dir, hasWriter) ==
  LET f == get_output_stream_filenames(name) IN
  [name |-> name, alive |-> TRUE,
   sigterms |-> 0,
   wrote |-> [s \in Streams |-> 0],
   copied |-> [s \in Streams |-> 0],
   writer |-> hasWriter,
   ino |-> [s \in Streams |->
              IF hasWriter THEN dir.paths[f[s]] ELSE 0]]

\* bytes written so far by the children 1..n to their pipes
RECURSIVE BytesWritten(_, _)
BytesWritten(ch, n) ==
  IF n = 0 THEN 0
  ELSE ch[n].wrote["stdout"] + ch[n].wrote["stderr"] + BytesWritten(ch, n - 1)

\* the Mutex<ApiServersService> of Dependencies (server.rs:35-38) is free:
\* no call holds a guard of it
RegistryIdleOrWaiting == svc.op = "idle" \/ (svc.op = "stop" /\ svc.pc = "wait")
RegistryIdle == svc.op = "idle"

\* spawn(name, server_args), src/src/api_servers.rs:59-105.  The outcome is
\* that of the three fallible steps: launching the binary, opening the
\* stdout log file, opening the stderr log file.
SpawnInsertBeforeOpen(name, port, outcome) ==
  /\ RegistryIdle
  /\ ncalls < MaxCalls
  /\ LET f == get_output_stream_filenames(name)
         dir1 == OpenForWrite(logs_dir, f.stdout)
         dir2 == OpenForWrite(dir1, f.stderr)
         c == Len(children) + 1
         instance == [local |-> TRUE, address |-> Address(port), handle |-> c]
     IN
     /\ ncalls' = ncalls + 1
     /\ latest' = IF outcome = "ok" THEN [latest EXCEPT ![name] = port] ELSE latest
     /\ CASE outcome = "launch_failed" ->
               /\ UNCHANGED <<instances, logs_join_handles, children, logs_dir>>
               /\ ret' = [op |-> "spawn", name |-> name, child |-> 0, res |-> "Err"]
          [] outcome = "stdout_open_failed" ->
               /\ children' = Append(children, NewChild(name, logs_dir, FALSE))
               /\ instances' = HashMapInsert(instances, name, instance)
               /\ UNCHANGED <<logs_join_handles, logs_dir>>
               /\ ret' = [op |-> "spawn", name |-> name, child |-> c, res |-> "Err"]
          [] outcome = "stderr_open_failed" ->
               /\ children' = Append(children, NewChild(name, logs_dir, FALSE))
               /\ instances' = HashMapInsert(instances, name, instance)
               /\ logs_dir' = dir1
               /\ UNCHANGED logs_join_handles
               /\ ret' = [op |-> "spawn", name |-> name, child |-> c, res |-> "Err"]
          [] outcome = "ok" ->
               /\ children' = Append(children, NewChild(name, dir2, TRUE))
               /\ logs_dir' = dir2
               /\ logs_join_handles' = Append(logs_join_handles, c)
               /\ instances' = HashMapInsert(instances, name, instance)
               /\ ret' = [op |-> "spawn", name |-> name, child |-> c, res |-> "Ok"]
  /\ UNCHANGED svc
  /\ UNCHANGED <<pkgVars, srvVars, hdlVars, fnVars>>
Spawn(name, port, outcome) ==
  /\ RegistryIdle
  /\ ncalls < MaxCalls
  /\ LET f == get_output_stream_filenames(name)
         dir1 == OpenForWrite(logs_dir, f.stdout)
         dir2 == OpenForWrite(dir1, f.stderr)
         c == Len(children) + 1
     IN
     /\ ncalls' = ncalls + 1
     /\ latest' = IF outcome = "ok" THEN [latest EXCEPT ![name] = port] ELSE latest
     /\ CASE outcome = "launch_failed" ->
               \* cmd.spawn() failed: `?` returns before anything is touched
               /\ UNCHANGED <<instances, logs_join_handles, children, logs_dir>>
               /\ ret' = [op |-> "spawn", name |-> name, child |-> 0, res |-> "Err"]
          [] outcome = "stdout_open_failed" ->
               \* the child runs; `?` returns, its handle and pipes are dropped
               /\ children' = Append(children, NewChild(name, logs_dir, FALSE))
               /\ UNCHANGED <<instances, logs_join_handles, logs_dir>>
               /\ ret' = [op |-> "spawn", name |-> name, child |-> c, res |-> "Err"]
          [] outcome = "stderr_open_failed" ->
               /\ children' = Append(children, NewChild(name, logs_dir, FALSE))
               /\ logs_dir' = dir1
               /\ UNCHANGED <<instances, logs_join_handles>>
               /\ ret' = [op |-> "spawn", name |-> name, child |-> c, res |-> "Err"]
          [] outcome = "ok" ->
               /\ children' = Append(children, NewChild(name, dir2, TRUE))
               /\ logs_dir' = dir2
               /\ logs_join_handles' = Append(logs_join_handles, c)
               /\ instances' = HashMapInsert(instances, name,
                                 [local |-> TRUE, address |-> Address(port),
                                  handle |-> c])
               /\ ret' = [op |-> "spawn", name |-> name, child |-> c, res |-> "Ok"]
  /\ UNCHANGED svc
  /\ UNCHANGED <<pkgVars, srvVars, hdlVars, fnVars>>

SpawnOutcomes == {"ok", "launch_failed", "stdout_open_failed", "stderr_open_failed"}

\* stop(name), src/src/api_servers.rs:137-147: remove the entry, send SIGTERM.
\* handle.id() is None only for a child that wait() has seen exit, which
\* nothing but stop itself calls, after the removal: the id is always there.
StopBegin(name) ==
  /\ RegistryIdle
  /\ ncalls < MaxCalls
  /\ ncalls' = ncalls + 1
  /\ latest' = [latest EXCEPT ![name] = 0]
  /\ IF ~HashMapContains(instances, name)
       THEN /\ ret' = [op |-> "stop", name |-> name, child |-> 0, res |-> "NotFound"]
            /\ UNCHANGED <<instances, children, svc>>
       ELSE LET c == HashMapGet(instances, name).handle IN
            /\ instances' = HashMapRemove(instances, name)
            /\ children' = [children EXCEPT ![c].sigterms = @ + 1]
            /\ svc' = [op |-> "stop", name |-> name, child |-> c, pc |-> "wait"]
            /\ ret' = NoRet
  /\ UNCHANGED <<logs_join_handles, logs_dir>>
  /\ UNCHANGED <<pkgVars, srvVars, hdlVars, fnVars>>

\* instance.handle.wait().await returns once the child has exited
StopWait ==
  /\ svc.op = "stop" /\ svc.pc = "wait"
  /\ ~children[svc.child].alive
  /\ svc' = [svc EXCEPT !.pc = "compress"]
  /\ UNCHANGED <<instances, logs_join_handles, children, logs_dir, ncalls, latest, ret>>
  /\ UNCHANGED <<pkgVars, srvVars, hdlVars, fnVars>>

\* compress_files(out, src_paths): one archive entry per source path, named by
\* the file name, holding the bytes the file has at that moment
compress_files(dir, out, src_paths) ==
  [dir EXCEPT !.archives =
     [p \in (DOMAIN dir.archives) \cup {out} |->
        IF p = out
          THEN [e \in src_paths |-> dir.inodes[dir.paths[e]]]
          ELSE dir.archives[p]]]

\* remove_file(path)
remove_file(dir, path) ==
  [dir EXCEPT !.paths = [p \in (DOMAIN dir.paths) \ {path} |-> dir.paths[p]]]

\* archive_logs, src/src/api_servers.rs:166-179: the compression step
StopCompress(io_ok) ==
  /\ svc.op = "stop" /\ svc.pc = "compress"
  /\ LET f == get_output_stream_filenames(svc.name)
         present == {f.stdout, f.stderr} \subseteq DOMAIN logs_dir.paths
     IN
     IF io_ok /\ present
       THEN /\ logs_dir' = compress_files(logs_dir, ArchiveName(svc.name),
                                          {f.stdout, f.stderr})
            /\ svc' = [svc EXCEPT !.pc = "remove"]
            /\ UNCHANGED ret
       ELSE /\ ret' = [op |-> "stop", name |-> svc.name, child |-> svc.child,
                       res |-> "ArchiveErr"]
            /\ svc' = NoCall
            /\ UNCHANGED logs_dir
  /\ UNCHANGED <<instances, logs_join_handles, children, ncalls, latest>>
  /\ UNCHANGED <<pkgVars, srvVars, hdlVars, fnVars>>

\* the raw log files removed after a successful compression
RemoveLogsStdoutOnly(dir, name) ==
  remove_file(dir, get_output_stream_filenames(name).stdout)
RemoveLogs(dir, name) ==
  remove_file(remove_file(dir, get_output_stream_filenames(name).stdout),
              get_output_stream_filenames(name).stderr)

\* archive_logs, src/src/api_servers.rs:181-188: remove stdout, then stderr
StopRemove(outcome) ==
  /\ svc.op = "stop" /\ svc.pc = "remove"
  /\ CASE outcome = "ok" ->
            /\ logs_dir' = RemoveLogs(logs_dir, svc.name)
            /\ ret' = [op |-> "stop", name |-> svc.name, child |-> svc.child,
                       res |-> "Ok"]
       [] outcome = "stdout_remove_failed" ->
            /\ UNCHANGED logs_dir
            /\ ret' = [op |-> "stop", name |-> svc.name, child |-> svc.child,
                       res |-> "ArchiveErr"]
       [] outcome = "stderr_remove_failed" ->
            /\ logs_dir' = remove_file(logs_dir,
                                       get_output_stream_filenames(svc.name).stdout)
            /\ ret' = [op |-> "stop", name |-> svc.name, child |-> svc.child,
                       res |-> "ArchiveErr"]
  /\ svc' = NoCall
  /\ UNCHANGED <<instances, logs_join_handles, children, ncalls, latest>>
  /\ UNCHANGED <<pkgVars, srvVars, hdlVars, fnVars>>

RemoveOutcomes == {"ok", "stdout_remove_failed", "stderr_remove_failed"}

\* bytes a pipe holds before a write to it blocks
PipeCapacity == 1

\* the child process writes one byte to one of its pipes, which has room
ChildWrite(c, s) ==
  /\ children[c].alive
  /\ children[c].writer
  /\ children[c].wrote[s] - children[c].copied[s] < PipeCapacity
  /\ BytesWritten(children, Len(children)) < MaxBytes
  /\ children' = [children EXCEPT ![c].wrote[s] = @ + 1]
  /\ UNCHANGED <<instances, logs_join_handles, logs_dir, svc, ncalls, latest, ret>>
  /\ UNCHANGED <<pkgVars, srvVars, hdlVars, fnVars>>

\* the child process exits (after SIGTERM or on its own)
ChildExit(c) ==
  /\ children[c].alive
  /\ children' = [children EXCEPT ![c].alive = FALSE]
  /\ UNCHANGED <<instances, logs_join_handles, logs_dir, svc, ncalls, latest, ret>>
  /\ UNCHANGED <<pkgVars, srvVars, hdlVars, fnVars>>

\* the log-writer task, src/src/api_servers.rs:89-94: tokio::io::copy moves
\* one byte of pipe `s` into the log file it has open; join polls the copy
\* of stdout and the copy of stderr alike
WriterCopySequential(c, s) ==
  /\ children[c].writer
  /\ children[c].copied[s] < children[c].wrote[s]
  /\ s = "stderr" =>
       ~children[c].alive /\ children[c].copied["stdout"] = children[c].wrote["stdout"]
  /\ LET i == children[c].ino[s]
         k == children[c].copied[s] + 1
     IN logs_dir' = [logs_dir EXCEPT !.inodes[i] = WriteAt(@, k, c)]
  /\ children' = [children EXCEPT ![c].copied[s] = @ + 1]
  /\ UNCHANGED <<instances, logs_join_handles, svc, ncalls, latest, ret>>
  /\ UNCHANGED <<pkgVars, srvVars, hdlVars, fnVars>>
WriterCopy(c, s) ==
  /\ children[c].writer
  /\ children[c].copied[s] < children[c].wrote[s]
  /\ LET i == children[c].ino[s]
         k == children[c].copied[s] + 1
     IN logs_dir' = [logs_dir EXCEPT !.inodes[i] = WriteAt(@, k, c)]
  /\ children' = [children EXCEPT ![c].copied[s] = @ + 1]
  /\ UNCHANGED <<instances, logs_join_handles, svc, ncalls, latest, ret>>
  /\ UNCHANGED <<pkgVars, srvVars, hdlVars, fnVars>>

NextRegistry ==
  \/ \E n \in Names, p \in Ports, o \in SpawnOutcomes : Spawn(n, p, o)
  \/ \E n \in Names : StopBegin(n)
  \/ StopWait
  \/ \E ok \in BOOLEAN : StopCompress(ok)
  \/ \E o \in RemoveOutcomes : StopRemove(o)
  \/ \E c \in DOMAIN children, s \in Streams : ChildWrite(c, s)
  \/ \E c \in DOMAIN children : ChildExit(c)
  \/ \E c \in DOMAIN children, s \in Streams : WriterCopy(c, s)

InitRegistry ==
  /\ instances = {}
  /\ logs_join_handles = <<>>
  /\ children = <<>>
  /\ logs_dir = [paths |-> <<>>, inodes |-> <<>>, archives |-> <<>>]
  /\ svc = NoCall
  /\ ncalls = 0
  /\ latest = [n \in Names |-> 0]
  /\ ret = NoRet

(***************************************************************************)
(* Packages repository                                                     *)
(***************************************************************************)
PKG_MANIFEST_NAME == "pkg_manifest.toml"
VERSION_SEMVER_SEPARATOR == "."

Semver(major, minor, patch) == [major |-> major, minor |-> minor, patch |-> patch]

\* #[derive(PartialOrd)] on struct Semver { major, minor, patch }: the fields
\* are compared in declaration order
SemverLessOrEqual(a, b) ==
  \/ a.major < b.major
  \/ a.major = b.major /\ a.minor < b.minor
  \/ a.major = b.major /\ a.minor = b.minor /\ a.patch <= b.patch
SemverLessPatchFirst(a, b) ==
  \/ a.patch < b.patch
  \/ a.patch = b.patch /\ a.minor < b.minor
  \/ a.patch = b.patch /\ a.minor = b.minor /\ a.major < b.major
SemverLess(a, b) ==
  \/ a.major < b.major
  \/ a.major = b.major /\ a.minor < b.minor
  \/ a.major = b.major /\ a.minor = b.minor /\ a.patch < b.patch

\* the comparison of two usize fields
UsizeCmp(x, y) == IF x < y THEN "Less" ELSE IF x = y THEN "Equal" ELSE "Greater"

\* #[derive(PartialOrd)]: partial_cmp compares major, then minor if the majors
\* are equal, then patch if the minors are equal too
partial_cmp_patch_first(a, b) ==
  IF UsizeCmp(a.patch, b.patch) # "Equal" THEN UsizeCmp(a.patch, b.patch)
  ELSE IF UsizeCmp(a.minor, b.minor) # "Equal" THEN UsizeCmp(a.minor, b.minor)
  ELSE UsizeCmp(a.major, b.major)
partial_cmp(a, b) ==
  IF UsizeCmp(a.major, b.major) # "Equal" THEN UsizeCmp(a.major, b.major)
  ELSE IF UsizeCmp(a.minor, b.minor) # "Equal" THEN UsizeCmp(a.minor, b.minor)
  ELSE UsizeCmp(a.patch, b.patch)

\* a < b and a > b of PartialOrd, by partial_cmp
lt(a, b) == partial_cmp(a, b) = "Less"
gt(a, b) == partial_cmp(a, b) = "Greater"

\* #[derive(PartialEq)]: a == b compares the fields one by one
eq(a, b) == a.major = b.major /\ a.minor = b.minor /\ a.patch = b.patch

\* [major, minor, patch].map(to_string).join(".")
string_representation(v) ==
  ToString(v.major) \o VERSION_SEMVER_SEPARATOR \o ToString(v.minor)
    \o VERSION_SEMVER_SEPARATOR \o ToString(v.patch)

\* The package archives install_package is called with.  A file extracted
\* from archive p is tagged p; the manifest of archive p states PkgVersion(p).
Pkgs == {1, 2, 3}
PkgVersion(p) ==
  CASE p = 1 -> Semver(1, 2, 3)
    [] p = 2 -> Semver(1, 3, 0)
    [] p = 3 -> Semver(2, 0, 0)
PkgFiles(p) ==
  CASE p = 1 -> {PKG_MANIFEST_NAME, "index.html"}
    [] p = 2 -> {PKG_MANIFEST_NAME, "index.html", "app.js"}
    [] p = 3 -> {PKG_MANIFEST_NAME, "index.html"}

None == [some |-> FALSE, version |-> Semver(0, 0, 0)]
Some(v) == [some |-> TRUE, version |-> v]

NoManifest == [exists |-> FALSE, valid |-> FALSE, version |-> Semver(0, 0, 0)]
CorruptManifest == [exists |-> TRUE, valid |-> FALSE, version |-> Semver(0, 0, 0)]
ManifestOf(v) == [exists |-> TRUE, valid |-> TRUE, version |-> v]

NoDir == [exists |-> FALSE, files |-> <<>>]

NoResult == [kind |-> "", provided |-> "", served |-> ""]
Ok == [kind |-> "Ok", provided |-> "", served |-> ""]
Err(kind) == [kind |-> kind, provided |-> "", served |-> ""]
\* FrontendPkgErr::PkgOutdated(temp_version.into(), local_version.into())
PkgOutdated(temp_version, local_version) ==
  [kind |-> "PkgOutdated",
   provided |-> string_representation(temp_version),
   served |-> string_representation(local_version)]

\* get_installed() / get_temp(): the cached package, or PackageUnavailable
get_installed == IF installed.some THEN Ok ELSE Err("PackageUnavailable")
get_temp == IF temp.some THEN Ok ELSE Err("PackageUnavailable")

\* parse_package_manifest(path) of a manifest file on disk
ParseOkWhenMissing(manifest, io_ok) == io_ok /\ (manifest.valid \/ ~manifest.exists)
ParseOk(manifest, io_ok) == io_ok /\ manifest.exists /\ manifest.valid

NoInstall ==
  [pc |-> "new", pkg |-> 0, force |-> FALSE, temp_version |-> Semver(0, 0, 0),
   copied |-> {}, staged |-> <<>>, steps |-> <<>>, faulted |-> FALSE,
   result |-> NoResult, prev_manifest |-> NoManifest, prev_installed |-> None]

InProgress ==
  inst.pc \in {"check_temp", "compare", "mkdir", "copy", "remove_temp", "rename", "reload"}

Step(name, ok) == [step |-> name, ok |-> ok]

\* the call goes on to `pc` after `step` passed
Continue(step, pc) ==
  [inst EXCEPT !.pc = pc, !.steps = Append(@, Step(step, TRUE))]
\* `step` failed (fault: by an I/O error): the call returns `result`
Return(step, fault, result) ==
  [inst EXCEPT !.pc = "returned", !.steps = Append(@, Step(step, FALSE)),
               !.faulted = @ \/ fault, !.result = result]

\* PackagesRepository::new() followed by init(), src/src/frontend/pkg/repository.rs:32-43
RepoInit ==
  /\ inst.pc = "new"
  /\ installed' = IF ParseOk(home_manifest, TRUE) THEN Some(home_manifest.version) ELSE None
  /\ temp' = None
  /\ inst' = [NoInstall EXCEPT !.pc = "idle"]
  /\ UNCHANGED <<home_manifest, temp_dir, frontend_dir, installs>>
  /\ UNCHANGED <<regVars, srvVars, hdlVars, fnVars>>

\* tar unpack into the staging directory: the files of the archive are
\* written over whatever the directory holds
Unpack(dir, p) ==
  [exists |-> TRUE,
   files |-> [f \in (DOMAIN dir.files) \cup PkgFiles(p) |->
                IF f \in PkgFiles(p) THEN p ELSE dir.files[f]]]

\* install_package(pkg_path, force_outdated), repository.rs:89-103: the call
\* starts with the extraction of the archive (a failed extraction is one that
\* fails before anything is unpacked)
install_package(p, force, io_ok) ==
  /\ inst.pc \in {"idle", "returned"}
  /\ installs.count < MaxInstalls
  /\ installs' = [count |-> installs.count + 1, forced |-> installs.forced \/ force]
  /\ LET call == [NoInstall EXCEPT !.pkg = p, !.force = force,
                                   !.prev_manifest = home_manifest,
                                   !.prev_installed = installed]
     IN IF io_ok
          THEN /\ temp_dir' = Unpack(temp_dir, p)
               /\ inst' = [call EXCEPT !.pc = "check_temp",
                                       !.steps = <<Step("extract", TRUE)>>]
          ELSE /\ UNCHANGED temp_dir
               /\ inst' = [call EXCEPT !.pc = "returned", !.faulted = TRUE,
                                       !.steps = <<Step("extract", FALSE)>>,
                                       !.result = Err("PkgInvalid")]
  /\ UNCHANGED <<installed, temp, home_manifest, frontend_dir>>

\* install_package called otherwise than by a request
InstallExtract(p, force, io_ok) ==
  /\ install_package(p, force, io_ok)
  /\ UNCHANGED <<regVars, srvVars, hdlVars, fnVars>>

\* the manifest file of the staging directory
TempManifest ==
  IF temp_dir.exists /\ PKG_MANIFEST_NAME \in DOMAIN temp_dir.files
    THEN ManifestOf(PkgVersion(temp_dir.files[PKG_MANIFEST_NAME]))
    ELSE NoManifest

\* self.check_temp().await?, repository.rs:76-87 and :104
InstallCheckTempIgnoreErr(io_ok) ==
  /\ inst.pc = "check_temp"
  /\ IF ParseOk(TempManifest, io_ok)
       THEN /\ temp' = Some(TempManifest.version)
            /\ inst' = [Continue("check_temp", "compare") EXCEPT
                          !.temp_version = TempManifest.version]
       ELSE /\ UNCHANGED temp
            /\ inst' = [inst EXCEPT !.pc = "compare", !.faulted = TRUE,
                                    !.steps = Append(@, Step("check_temp", FALSE))]
  /\ UNCHANGED <<installed, home_manifest, temp_dir, frontend_dir, installs>>
  /\ UNCHANGED <<regVars, srvVars, hdlVars, fnVars>>
InstallCheckTemp(io_ok) ==
  /\ inst.pc = "check_temp"
  /\ IF ParseOk(TempManifest, io_ok)
       THEN /\ temp' = Some(TempManifest.version)
            /\ inst' = [Continue("check_temp", "compare") EXCEPT
                          !.temp_version = TempManifest.version]
       ELSE /\ UNCHANGED temp
            /\ inst' = Return("check_temp", ~io_ok, Err("ManifestInvalid"))
  /\ UNCHANGED <<installed, home_manifest, temp_dir, frontend_dir, installs>>
  /\ UNCHANGED <<regVars, srvVars, hdlVars, fnVars>>

\* check_temp_pkg_manifest_against_installed_one, repository.rs:177-194
check_temp_pkg_manifest_swapped_versions ==
  IF ~temp.some THEN Err("PackageUnavailable")
  ELSE IF ~installed.some THEN Ok
  ELSE IF SemverLess(temp.version, installed.version)
    THEN PkgOutdated(installed.version, temp.version)
  ELSE Ok
check_temp_pkg_manifest_against_installed_one ==
  IF ~temp.some THEN Err("PackageUnavailable")
  ELSE IF ~installed.some THEN Ok
  ELSE IF SemverLess(temp.version, installed.version)
    THEN PkgOutdated(temp.version, installed.version)
  ELSE Ok

\* the match on the result of the version check, repository.rs:106-122
InstallCompare ==
  /\ inst.pc = "compare"
  /\ LET r == check_temp_pkg_manifest_against_installed_one IN
     inst' = IF r.kind = "Ok" \/ (r.kind = "PkgOutdated" /\ inst.force)
               THEN Continue("compare", "mkdir")
               ELSE Return("compare", FALSE, r)
  /\ UNCHANGED <<installed, temp, home_manifest, temp_dir, frontend_dir, installs>>
  /\ UNCHANGED <<regVars, srvVars, hdlVars, fnVars>>

\* the content directory <frontend dir>/<version>
ContentDirOfAllVersions(version) == "current"
ContentDir(version) == string_representation(version)

\* copy_frontend_pkg_to_home, repository.rs:197-219: the walk yields the
\* staging directory itself first, for which create_dir_all makes the
\* content directory (an existing one is kept as it is)
InstallCopyMkdir(io_ok) ==
  /\ inst.pc = "mkdir"
  /\ LET d == ContentDir(inst.temp_version) IN
     IF io_ok /\ temp_dir.exists
       THEN /\ frontend_dir' = IF d \in DOMAIN frontend_dir THEN frontend_dir
                               ELSE frontend_dir @@ (d :> <<>>)
            /\ inst' = [inst EXCEPT !.pc = "copy", !.copied = {},
                                    !.staged = temp_dir.files]
       ELSE /\ UNCHANGED frontend_dir
            /\ inst' = Return("copy", TRUE, Err("PkgUnpackErr"))
  /\ UNCHANGED <<installed, temp, home_manifest, temp_dir, installs>>
  /\ UNCHANGED <<regVars, srvVars, hdlVars, fnVars>>

\* the walk over the staging directory has yielded every entry
copy_done_after_first(copied, files) == copied # {}
copy_done(copied, files) == copied = DOMAIN files

\* std::fs::copy(entry.path(), tgt_path) of one more file of the walk (the
\* order of the walk is that of the directory, which the code does not fix)
InstallCopyFile(f, io_ok) ==
  /\ inst.pc = "copy"
  /\ f \in (DOMAIN temp_dir.files) \ inst.copied
  /\ LET d == ContentDir(inst.temp_version) IN
     IF io_ok
       THEN /\ frontend_dir' =
                 [frontend_dir EXCEPT ![d] =
                    [g \in (DOMAIN @) \cup {f} |->
                       IF g = f THEN temp_dir.files[f] ELSE @[g]]]
            /\ inst' = IF copy_done(inst.copied \cup {f}, temp_dir.files)
                         THEN [Continue("copy", "remove_temp") EXCEPT
                                 !.copied = @ \cup {f}]
                         ELSE [inst EXCEPT !.copied = @ \cup {f}]
       ELSE /\ UNCHANGED frontend_dir
            /\ inst' = Return("copy", TRUE, Err("HomeDirInaccessible"))
  /\ UNCHANGED <<installed, temp, home_manifest, temp_dir, installs>>
  /\ UNCHANGED <<regVars, srvVars, hdlVars, fnVars>>

\* remove_dir_all(&frontend_temp_dir), repository.rs:132-139: an error is
\* only logged; self.temp = None either way
InstallRemoveTemp(io_ok) ==
  /\ inst.pc = "remove_temp"
  /\ temp_dir' = IF io_ok THEN NoDir ELSE temp_dir
  /\ temp' = None
  /\ inst' = [inst EXCEPT !.pc = "rename", !.faulted = @ \/ ~io_ok,
                          !.steps = Append(@, Step("remove_temp", io_ok))]
  /\ UNCHANGED <<installed, home_manifest, frontend_dir, installs>>
  /\ UNCHANGED <<regVars, srvVars, hdlVars, fnVars>>

\* move_manifest_to_project_home(&temp_version), repository.rs:221-237:
\* rename <frontend dir>/<version>/pkg_manifest.toml to
\* <project home>/pkg_manifest.toml
InstallRename(io_ok) ==
  /\ inst.pc = "rename"
  /\ LET d == ContentDir(inst.temp_version)
         present == d \in DOMAIN frontend_dir
                      /\ PKG_MANIFEST_NAME \in DOMAIN frontend_dir[d]
     IN
     IF io_ok /\ present
       THEN /\ home_manifest' = ManifestOf(PkgVersion(frontend_dir[d][PKG_MANIFEST_NAME]))
            /\ frontend_dir' =
                 [frontend_dir EXCEPT ![d] =
                    [g \in (DOMAIN @) \ {PKG_MANIFEST_NAME} |-> @[g]]]
            /\ inst' = Continue("rename", "reload")
       ELSE /\ UNCHANGED <<home_manifest, frontend_dir>>
            /\ inst' = Return("rename", ~io_ok, Err("HomeDirInaccessible"))
  /\ UNCHANGED <<installed, temp, temp_dir, installs>>
  /\ UNCHANGED <<regVars, srvVars, hdlVars, fnVars>>

\* self.check_installed().await?, repository.rs:63-74 and :142-144
InstallReload(io_ok) ==
  /\ inst.pc = "reload"
  /\ IF ParseOk(home_manifest, io_ok)
       THEN /\ installed' = Some(home_manifest.version)
            /\ inst' = [Continue("reload", "returned") EXCEPT !.result = Ok]
       ELSE /\ UNCHANGED installed
            /\ inst' = Return("reload", ~io_ok, Err("ManifestInvalid"))
  /\ UNCHANGED <<temp, home_manifest, temp_dir, frontend_dir, installs>>
  /\ UNCHANGED <<regVars, srvVars, hdlVars, fnVars>>

\* the process dies in the middle of install_package, or between two calls
Crash ==
  /\ InProgress \/ inst.pc = "returned"
  /\ inst' = [inst EXCEPT !.pc = "crashed"]
  /\ UNCHANGED <<installed, temp, home_manifest, temp_dir, frontend_dir, installs>>
  /\ UNCHANGED <<regVars, srvVars, hdlVars, fnVars>>

\* the process is started again: PackagesRepository::new() and init(), which
\* loads the manifest the disk holds
Restart ==
  /\ inst.pc = "crashed"
  /\ installed' = IF ParseOk(home_manifest, TRUE) THEN Some(home_manifest.version) ELSE None
  /\ temp' = None
  /\ inst' = [NoInstall EXCEPT !.pc = "idle"]
  /\ UNCHANGED <<home_manifest, temp_dir, frontend_dir, installs>>
  /\ UNCHANGED <<regVars, srvVars, hdlVars, fnVars>>

FileNames == {PKG_MANIFEST_NAME, "index.html", "app.js"}

NextPackages ==
  \/ RepoInit
  \/ \E p \in Pkgs, force \in BOOLEAN, ok \in BOOLEAN : InstallExtract(p, force, ok)
  \/ \E ok \in BOOLEAN : InstallCheckTemp(ok)
  \/ InstallCompare
  \/ \E ok \in BOOLEAN : InstallCopyMkdir(ok)
  \/ \E f \in FileNames, ok \in BOOLEAN : InstallCopyFile(f, ok)
  \/ \E ok \in BOOLEAN : InstallRemoveTemp(ok)
  \/ \E ok \in BOOLEAN : InstallRename(ok)
  \/ \E ok \in BOOLEAN : InstallReload(ok)
  \/ Crash
  \/ Restart

\* the repository right after PackagesRepository::new(), over a disk that
\* holds `manifest` and the content directories `content`
NewRepository(manifest, content) ==
  /\ installed = None
  /\ temp = None
  /\ temp_dir = NoDir
  /\ inst = NoInstall
  /\ installs = [count |-> 0, forced |-> FALSE]
  /\ home_manifest = manifest
  /\ frontend_dir = content

\* what the disk holds when the process first starts: nothing, a manifest
\* that does not parse, or package 2 installed by an earlier run
InitPackages ==
  \/ NewRepository(NoManifest, <<>>)
  \/ NewRepository(CorruptManifest, <<>>)
  \/ NewRepository(ManifestOf(PkgVersion(2)),
                   ContentDir(PkgVersion(2)) :>
                     [f \in PkgFiles(2) \ {PKG_MANIFEST_NAME} |-> 2])

(***************************************************************************)
(* Request handlers over the packages repository                           *)
(***************************************************************************)
\* frontend.rs:25, the entry point a manifest without one falls back to
INDEX_FILE_NAME == "index.html"

MaxReads == 1
MaxChecks == 1
\* chunks the body of a served file is streamed in
BodyChunks == 2

\* nothing served, nothing checked yet
NoServed ==
  [count |-> 0, open |-> FALSE, version |-> Semver(0, 0, 0), file |-> "",
   read |-> 0, result |-> ""]
NoChecked == [count |-> 0, local_version |-> None, should_update |-> FALSE]

\* the Mutex<PackagesRepository> of Dependencies (server.rs:35-38) is free:
\* update_frontend_package holds its guard for the whole of install_package
RepositoryFree == inst.pc \in {"idle", "returned"}

\* get_installed_file(name), repository.rs:147-175, can open the file
InstalledFilePresent(name) ==
  /\ installed.some
  /\ ContentDir(installed.version) \in DOMAIN frontend_dir
  /\ name \in DOMAIN frontend_dir[ContentDir(installed.version)]

\* decide_file_to_serve, server/frontend.rs:71-139, for a client that accepts
\* no encoding: the requested name if it can be opened, else the entry
\* point; "" when no candidate can be opened
decide_file_to_serve(name) ==
  IF InstalledFilePresent(name) THEN name
  ELSE IF InstalledFilePresent(INDEX_FILE_NAME) THEN INDEX_FILE_NAME
  ELSE ""

\* serve_frontend, server/frontend.rs:21-57, called by service with the
\* repository locked (server.rs:111-117): the file is opened and a response
\* is returned whose body is a ReaderStream over the open file; the guard
\* of the repository is dropped when service returns the response
ServeFrontend(name) ==
  /\ RepositoryFree
  /\ ~served.open
  /\ served.count < MaxReads
  /\ LET f == decide_file_to_serve(name) IN
     served' = IF f = ""
                 THEN [NoServed EXCEPT !.count = served.count + 1, !.result = "Err"]
                 ELSE [count |-> served.count + 1, open |-> TRUE,
                       version |-> installed.version, file |-> f, read |-> 0,
                       result |-> "Ok"]
  /\ UNCHANGED <<pkgVars, checked, updates>>
  /\ UNCHANGED <<regVars, srvVars, fnVars>>

\* the connection polls the body of the response, server/frontend.rs:38-44:
\* the ReaderStream reads the next chunk of the open file, and ends with the
\* last one
StreamChunk ==
  /\ served.open
  /\ inst.pc # "crashed"
  /\ served' = [served EXCEPT !.read = @ + 1, !.open = (served.read + 1 < BodyChunks)]
  /\ UNCHANGED <<pkgVars, checked, updates>>
  /\ UNCHANGED <<regVars, srvVars, fnVars>>

\* check_latest_frontend_release, server/api/frontend.rs:23-48, called with
\* the repository locked (server.rs:120-122); `p` is the latest release
CheckLatest(p) ==
  /\ RepositoryFree
  /\ checked.count < MaxChecks
  /\ checked' = [count |-> checked.count + 1,
                 local_version |-> installed,
                 should_update |-> ~installed.some
                                     \/ lt(installed.version, PkgVersion(p))]
  /\ UNCHANGED <<pkgVars, served, updates>>
  /\ UNCHANGED <<regVars, srvVars, fnVars>>

\* server/api/frontend.rs:86
FORCE_OUTDATED_NEVER == FALSE
FORCE_OUTDATED == TRUE

\* frontend-update requests handled in one run
MaxUpdates == 2
NoUpdates == [count |-> 0, response |-> ""]

\* update_frontend_package, server/api/frontend.rs:55-101, called with the
\* repository locked: the release of the version asked for is looked up and
\* downloaded; a failure of either is answered with status 500, else
\* install_package is called with the downloaded archive `p`
UpdateFrontendPackage(p, fetched, io_ok) ==
  /\ RepositoryFree
  /\ updates.count < MaxUpdates
  /\ IF fetched
       THEN /\ install_package(p, FORCE_OUTDATED, io_ok)
            /\ updates' = [count |-> updates.count + 1, response |-> "installing"]
       ELSE /\ updates' = [count |-> updates.count + 1, response |-> "500"]
            /\ UNCHANGED pkgVars
  /\ UNCHANGED <<served, checked>>
  /\ UNCHANGED <<regVars, srvVars, fnVars>>

\* the frontend-update requests and the install_package calls they make
NextUpdate ==
  \/ RepoInit
  \/ \E p \in Pkgs, fetched \in BOOLEAN, ok \in BOOLEAN :
       UpdateFrontendPackage(p, fetched, ok)
  \/ \E ok \in BOOLEAN : InstallCheckTemp(ok)
  \/ InstallCompare
  \/ \E ok \in BOOLEAN : InstallCopyMkdir(ok)
  \/ \E f \in FileNames, ok \in BOOLEAN : InstallCopyFile(f, ok)
  \/ \E ok \in BOOLEAN : InstallRemoveTemp(ok)
  \/ \E ok \in BOOLEAN : InstallRename(ok)
  \/ \E ok \in BOOLEAN : InstallReload(ok)

NextRequests ==
  \/ NextPackages
  \/ \E f \in FileNames : ServeFrontend(f)
  \/ StreamChunk
  \/ \E p \in Pkgs : CheckLatest(p)

(***************************************************************************)
(* Shutdown coordinator                                                    *)
(***************************************************************************)
GRACEFUL_SHUTDOWN_TIMEOUT_SEC == 30

\* connections that arrive in one run
MaxConns == 2
\* requests sent over the accepted connections in one run
MaxRequests == 1
\* interrupt signals delivered in one run
MaxSignals == 1
\* seconds the clock runs while the accept loop is Running
MaxTime == 3
\* api-server spawns made by request handlers in one run
MaxSpawns == 1

\* the values given to --idle-shutdown-timeout, in seconds
IdleTimeouts == {1, 2}
Args == [enable_idle_shutdown_timeout : BOOLEAN, idle_shutdown_timeout : IdleTimeouts]

\* the timeout main passes to the registry's shutdown(shutdown_timeout)
ShutdownTimeout == 2

NoInterval == [some |-> FALSE, secs |-> 0]
SomeInterval(secs) == [some |-> TRUE, secs |-> secs]

\* main.rs:121-129: Some(args.idle_shutdown_timeout) only with the enable flag
idle_shutdown_interval_any_flag(a) == SomeInterval(a.idle_shutdown_timeout)
idle_shutdown_interval(a) ==
  IF a.enable_idle_shutdown_timeout
    THEN SomeInterval(a.idle_shutdown_timeout)
    ELSE NoInterval

Running == coordinator.state = "Running"
Draining == coordinator.state = "Draining"
Stopped == coordinator.state = "Stopped"
Exited == main.pc = "exited"

\* a wait_for_shutdown_condition future just created: a new Notified, a new
\* ctrl_c listener and a new sleep, none of them completed
NewWait == [notified |-> FALSE, ctrl_c |-> FALSE, sleep |-> 0]

\* the future the next iteration of the loop waits on, after the accept
\* branch of select! won and the future `w` of this iteration was dropped
WaitKeptAfterAccept(w) == w
WaitAfterAccept(w) == NewWait

\* wait_for_shutdown_condition, server.rs:87-97: the branches of its select!
\* that are ready; the sleep branch is polled only if the interval is Some
ShutdownBranchesOnceConnectionsEnd(w, interval) ==
  {b \in {"request", "sigint", "idle"} :
     \/ b = "request" /\ w.notified
     \/ b = "sigint" /\ w.ctrl_c
     \/ b = "idle" /\ interval.some /\ w.sleep >= interval.secs
          /\ \A c \in DOMAIN conns : conns[c].state # "open"}
ShutdownBranches(w, interval) ==
  {b \in {"request", "sigint", "idle"} :
     \/ b = "request" /\ w.notified
     \/ b = "sigint" /\ w.ctrl_c
     \/ b = "idle" /\ interval.some /\ w.sleep >= interval.secs}

\* Notify::notify_waiters(): wakes the Notified futures that exist at the call
\* and stores no permit for a Notified created later
notify_waiters(w, waiting) == IF waiting THEN [w EXCEPT !.notified = TRUE] ELSE w

\* the accept branch of the loop's select!, server.rs:52: the listener is
\* open and a connection waits in its backlog
AcceptReady == Running /\ coordinator.listener /\ net.backlog > 0

\* the connections registered with graceful.watch(): serve_connection is
\* spawned without it, server.rs:56-60
GracefulWatched == {}

\* graceful.shutdown() completes once every watched connection has finished
GracefulShutdownReady == \A c \in GracefulWatched : conns[c].state # "open"

\* the log-writer task of child c has run to its end: both pipes are at EOF
WriterDone(c) ==
  /\ ~children[c].alive
  /\ \A s \in Streams : children[c].copied[s] = children[c].wrote[s]

\* the process is gone: the runtime drops every connection task
CutConnections(cs) ==
  [c \in DOMAIN cs |-> IF cs[c].state = "open" THEN [cs[c] EXCEPT !.state = "cut"]
                       ELSE cs[c]]

Arrivals == Len(conns) + net.backlog + net.refused

\* a client connects: the connection waits in the backlog of the listener, or
\* is refused once the listener is dropped
ConnArrive ==
  /\ Arrivals < MaxConns
  /\ net' = IF coordinator.listener
              THEN [net EXCEPT !.backlog = @ + 1]
              ELSE [net EXCEPT !.refused = @ + 1]
  /\ UNCHANGED <<args, coordinator, wait, conns, clock, main>>
  /\ UNCHANGED <<regVars, pkgVars, hdlVars, fnVars>>

\* serve, server.rs:48-61: the accept branch of select! wins; the connection
\* is handed to a new task and the loop starts its next iteration, which
\* creates a new wait_for_shutdown_condition future
ServeAccept ==
  /\ AcceptReady
  /\ net' = [net EXCEPT !.backlog = @ - 1]
  /\ conns' = Append(conns, [state |-> "open"])
  /\ wait' = WaitAfterAccept(wait)
  /\ clock' = [clock EXCEPT !.since_accept = 0]
  /\ UNCHANGED <<args, coordinator, main>>
  /\ UNCHANGED <<regVars, pkgVars, hdlVars, fnVars>>

\* drop(listener); break, server.rs:63-64
LeaveRunningListenerKept(co, branch, idle_for) ==
  [co EXCEPT !.state = "Draining", !.cause = branch, !.fired = @ + 1,
             !.idle_for = idle_for]
LeaveRunning(co, branch, idle_for) ==
  [co EXCEPT !.state = "Draining", !.listener = FALSE, !.cause = branch,
             !.fired = @ + 1, !.idle_for = idle_for]

\* serve, server.rs:62-65: wait_for_shutdown_condition completes by `branch`;
\* the listener is dropped and the loop is left.  The clocks of the loop
\* stop; how long the loop had been without an accept is kept.
ServeShutdownCondition(branch) ==
  /\ Running
  /\ branch \in ShutdownBranches(wait, idle_shutdown_interval(args))
  /\ coordinator' = LeaveRunning(coordinator, branch, clock.since_accept)
  /\ net' = [net EXCEPT !.backlog = 0, !.refused = @ + net.backlog]
  /\ clock' = [clock EXCEPT !.now = 0, !.since_accept = 0, !.since_request = 0,
                            !.since_drain = 0]
  /\ wait' = NewWait
  /\ UNCHANGED <<args, conns, main>>
  /\ UNCHANGED <<regVars, pkgVars, hdlVars, fnVars>>

\* the branches of the select! of server.rs:69-76 that are ready
DrainOutcomes ==
  {r \in {"Ok", "Err"} :
     \/ r = "Ok" /\ GracefulShutdownReady
     \/ r = "Err" /\ clock.since_drain >= GRACEFUL_SHUTDOWN_TIMEOUT_SEC}

\* serve, server.rs:69-78: graceful.shutdown() against the grace period
ServeDrain(r) ==
  /\ Draining
  /\ r \in DrainOutcomes
  /\ coordinator' = [coordinator EXCEPT !.state = "Stopped", !.serve_result = r]
  /\ UNCHANGED <<args, wait, net, conns, clock, main>>
  /\ UNCHANGED <<regVars, pkgVars, hdlVars, fnVars>>

\* main, main.rs:139-150: the error of serve is returned at once; otherwise
\* the registry is locked and its shutdown called, which takes the handles
\* of the log-writer tasks (api_servers.rs:126-128)
MainAfterServeKeepsHandles ==
  /\ Stopped /\ main.pc = "serve"
  /\ IF coordinator.serve_result = "Err"
       THEN /\ main' = [main EXCEPT !.pc = "exited", !.result = "Err"]
            /\ conns' = CutConnections(conns)
            /\ UNCHANGED <<svc, logs_join_handles, clock>>
       ELSE /\ RegistryIdle
            /\ svc' = [op |-> "shutdown", name |-> "", child |-> 0, pc |-> "join"]
            /\ UNCHANGED logs_join_handles
            /\ main' = [main EXCEPT !.pc = "registry_shutdown",
                          !.awaiting = {logs_join_handles[i] :
                                          i \in DOMAIN logs_join_handles}]
            /\ clock' = [clock EXCEPT !.since_shutdown = 0]
            /\ UNCHANGED conns
  /\ UNCHANGED <<args, coordinator, wait, net>>
  /\ UNCHANGED <<instances, children, logs_dir, ncalls, latest, ret>>
  /\ UNCHANGED <<pkgVars, hdlVars, fnVars>>
MainAfterServe ==
  /\ Stopped /\ main.pc = "serve"
  /\ IF coordinator.serve_result = "Err"
       THEN /\ main' = [main EXCEPT !.pc = "exited", !.result = "Err"]
            /\ conns' = CutConnections(conns)
            /\ UNCHANGED <<svc, logs_join_handles, clock>>
       ELSE /\ RegistryIdle
            /\ svc' = [op |-> "shutdown", name |-> "", child |-> 0, pc |-> "join"]
            /\ logs_join_handles' = <<>>
            /\ main' = [main EXCEPT !.pc = "registry_shutdown",
                          !.awaiting = {logs_join_handles[i] :
                                          i \in DOMAIN logs_join_handles}]
            /\ clock' = [clock EXCEPT !.since_shutdown = 0]
            /\ UNCHANGED conns
  /\ UNCHANGED <<args, coordinator, wait, net>>
  /\ UNCHANGED <<instances, children, logs_dir, ncalls, latest, ret>>
  /\ UNCHANGED <<pkgVars, hdlVars, fnVars>>

\* the branches of the select! of api_servers.rs:127-134 that are ready
ShutdownOutcomesJoinOnly ==
  {h \in {"joined"} : \A c \in main.awaiting : WriterDone(c)}
ShutdownOutcomes ==
  {h \in {"joined", "timeout"} :
     \/ h = "joined" /\ \A c \in main.awaiting : WriterDone(c)
     \/ h = "timeout" /\ clock.since_shutdown >= ShutdownTimeout}

\* ApiServersService::shutdown returns, api_servers.rs:126-135, and main
\* returns Ok, main.rs:152: the process exits
RegistryShutdownReturn(h) ==
  /\ main.pc = "registry_shutdown"
  /\ h \in ShutdownOutcomes
  /\ main' = [main EXCEPT !.pc = "exited", !.result = "Ok", !.shutdown = h]
  /\ svc' = [svc EXCEPT !.pc = "returned"]
  /\ conns' = CutConnections(conns)
  /\ UNCHANGED <<args, coordinator, wait, net, clock>>
  /\ UNCHANGED <<instances, logs_join_handles, children, logs_dir, ncalls, latest, ret>>
  /\ UNCHANGED <<pkgVars, hdlVars, fnVars>>

Routes == {"shutdown", "frontend"}

\* service, server.rs:100-150: a request arrives on the accepted connection c
\* and is routed; the shutdown route calls trigger_shutdown
\* (server/api/management.rs:9-18)
Request(c, route) ==
  /\ ~Exited
  /\ conns[c].state = "open"
  /\ net.requests < MaxRequests
  /\ net' = [net EXCEPT !.requests = @ + 1]
  /\ wait' = IF route = "shutdown" THEN notify_waiters(wait, Running) ELSE wait
  /\ coordinator' = IF route = "shutdown" /\ Running
                      THEN [coordinator EXCEPT !.triggers = @ \cup {"request"}]
                      ELSE coordinator
  /\ clock' = IF Running THEN [clock EXCEPT !.since_request = 0] ELSE clock
  /\ UNCHANGED <<args, conns, main>>
  /\ UNCHANGED <<regVars, pkgVars, hdlVars, fnVars>>

\* the process receives SIGINT: the ctrl_c() listener of the current
\* wait_for_shutdown_condition future completes; with the loop left, the
\* signal handler tokio installed has no listener
SigInt ==
  /\ ~Exited
  /\ net.signals < MaxSignals
  /\ net' = [net EXCEPT !.signals = @ + 1]
  /\ wait' = IF Running THEN [wait EXCEPT !.ctrl_c = TRUE] ELSE wait
  /\ coordinator' = IF Running
                      THEN [coordinator EXCEPT !.triggers = @ \cup {"sigint"}]
                      ELSE coordinator
  /\ UNCHANGED <<args, conns, clock, main>>
  /\ UNCHANGED <<regVars, pkgVars, hdlVars, fnVars>>

\* the connection c comes to its end (the client closes it); a request
\* handler in flight is on a connection that stays open
ConnClose(c) ==
  /\ ~Exited
  /\ conns[c].state = "open"
  /\ svc.op = "stop" => \E d \in DOMAIN conns : d # c /\ conns[d].state = "open"
  /\ conns' = [conns EXCEPT ![c].state = "finished"]
  /\ UNCHANGED <<args, coordinator, wait, net, clock, main>>
  /\ UNCHANGED <<regVars, pkgVars, hdlVars, fnVars>>

\* the main task goes from the end of the accept loop to the lock of the
\* registry (server.rs:62-78, main.rs:139-147) in one poll when nothing
\* makes it wait: no other task of the runtime is polled in between
MainRunsOn ==
  \/ Draining /\ DrainOutcomes # {}
  \/ Stopped /\ main.pc = "serve"
       /\ (coordinator.serve_result = "Err" \/ RegistryIdle)

\* a branch of a select! the main task waits on is ready: the task is polled
\* and takes it before the clock moves on
MainTaskReady ==
  \/ AcceptReady
  \/ Running /\ ShutdownBranches(wait, idle_shutdown_interval(args)) # {}
  \/ Draining /\ DrainOutcomes # {}
  \/ Stopped /\ main.pc = "serve"
       /\ (coordinator.serve_result = "Err" \/ RegistryIdle)
  \/ main.pc = "registry_shutdown" /\ ShutdownOutcomes # {}

\* time passes: one second while a sleep of the process is pending, and up to
\* the end of the grace period once no timer of the process is left
Tick ==
  /\ ~MainTaskReady
  /\ IF Running
       THEN /\ clock.now < MaxTime
            /\ clock' = [clock EXCEPT !.now = @ + 1, !.since_accept = @ + 1,
                                      !.since_request = @ + 1]
            /\ wait' = [wait EXCEPT !.sleep = @ + 1]
       ELSE /\ IF main.pc = "registry_shutdown"
                 THEN clock.since_shutdown < GRACEFUL_SHUTDOWN_TIMEOUT_SEC
                 ELSE clock.since_drain < GRACEFUL_SHUTDOWN_TIMEOUT_SEC
            /\ clock' = IF main.pc = "registry_shutdown"
                          THEN [clock EXCEPT
                                  !.since_drain =
                                     IF @ < GRACEFUL_SHUTDOWN_TIMEOUT_SEC
                                       THEN @ + 1 ELSE @,
                                  !.since_shutdown = @ + 1]
                          ELSE [clock EXCEPT
                                  !.since_drain = GRACEFUL_SHUTDOWN_TIMEOUT_SEC]
            /\ UNCHANGED wait
  /\ UNCHANGED <<args, coordinator, net, conns, main>>
  /\ UNCHANGED <<regVars, pkgVars, hdlVars, fnVars>>

\* the handler of a spawn request, server/api/api_servers.rs:19-45, on an
\* accepted connection
HandleSpawn ==
  /\ ~Exited /\ ~MainRunsOn
  /\ \E c \in DOMAIN conns : conns[c].state = "open"
  /\ Len(children) < MaxSpawns
  /\ Spawn("a", 4000, "ok")

\* a log-writer task runs as long as the runtime of the process does
WriterTaskCopy(c, s) == ~Exited /\ WriterCopy(c, s)

NextServer ==
  \/ ConnArrive
  \/ ServeAccept
  \/ \E b \in {"request", "sigint", "idle"} : ServeShutdownCondition(b)
  \/ \E r \in {"Ok", "Err"} : ServeDrain(r)
  \/ MainAfterServe
  \/ \E h \in {"joined", "timeout"} : RegistryShutdownReturn(h)
  \/ \E c \in DOMAIN conns, route \in Routes : Request(c, route)
  \/ SigInt
  \/ \E c \in DOMAIN conns : ConnClose(c)
  \/ Tick
  \/ HandleSpawn
  \/ \E c \in DOMAIN children, s \in Streams : ChildWrite(c, s)
  \/ \E c \in DOMAIN children : ChildExit(c)
  \/ \E c \in DOMAIN children, s \in Streams : WriterTaskCopy(c, s)

(***************************************************************************)
(* Request handlers over the process registry                              *)
(***************************************************************************)
\* a request can be handled: the runtime is there and a connection is open
Serving == ~Exited /\ ~MainRunsOn /\ \E c \in DOMAIN conns : conns[c].state = "open"

\* what serve gets to see of the error or panic of a request handler: the
\* handler runs in the task of its connection (tokio::task::spawn,
\* server.rs:56-60), whose result is dropped (`_ =`): nothing
HandlerErrorReturnedByServe(co) ==
  [co EXCEPT !.state = "Stopped", !.listener = FALSE, !.serve_result = "Err"]
AfterHandlerError(co) == co

\* the handler of a spawn request whose spawn fails
HandleSpawnFails(o) ==
  /\ Serving
  /\ Len(children) < MaxSpawns
  /\ o \in SpawnOutcomes \ {"ok"}
  /\ Spawn("a", 4000, o)

\* stop_local_server, server/api/api_servers.rs:51-66: the handler of a stop
\* request calls stop(name) with the service locked
HandleStop(n) == Serving /\ StopBegin(n)
HandleStopWait == ~Exited /\ StopWait
HandleStopCompress(io_ok) == ~Exited /\ StopCompress(io_ok)
HandleStopRemove(o) == ~Exited /\ StopRemove(o)

\* stop(name) when signal::kill fails: the unwrap of api_servers.rs:147
\* panics, after the instance was removed.  The unwinding drops the guard of
\* the service and the removed instance; the task of the connection ends.
HandleStopPanicsBeforeRemove(c, n) ==
  /\ ~Exited /\ ~MainRunsOn
  /\ conns[c].state = "open"
  /\ RegistryIdle
  /\ ncalls < MaxCalls
  /\ HashMapContains(instances, n)
  /\ ncalls' = ncalls + 1
  /\ latest' = [latest EXCEPT ![n] = 0]
  /\ ret' = [op |-> "stop", name |-> n, child |-> HashMapGet(instances, n).handle,
             res |-> "Panic"]
  /\ conns' = [conns EXCEPT ![c].state = "finished"]
  /\ net' = [net EXCEPT !.errors = @ + 1]
  /\ coordinator' = AfterHandlerError(coordinator)
  /\ UNCHANGED <<instances, logs_join_handles, children, logs_dir, svc>>
  /\ UNCHANGED <<args, wait, clock, main>>
  /\ UNCHANGED <<pkgVars, hdlVars, fnVars>>
HandleStopPanics(c, n) ==
  /\ ~Exited /\ ~MainRunsOn
  /\ conns[c].state = "open"
  /\ RegistryIdle
  /\ ncalls < MaxCalls
  /\ HashMapContains(instances, n)
  /\ ncalls' = ncalls + 1
  /\ latest' = [latest EXCEPT ![n] = 0]
  /\ instances' = HashMapRemove(instances, n)
  /\ ret' = [op |-> "stop", name |-> n, child |-> HashMapGet(instances, n).handle,
             res |-> "Panic"]
  /\ conns' = [conns EXCEPT ![c].state = "finished"]
  /\ net' = [net EXCEPT !.errors = @ + 1]
  /\ coordinator' = AfterHandlerError(coordinator)
  /\ UNCHANGED <<logs_join_handles, children, logs_dir, svc>>
  /\ UNCHANGED <<args, wait, clock, main>>
  /\ UNCHANGED <<pkgVars, hdlVars, fnVars>>

\* get_all_instances, server/api/api_servers.rs:79-93: lists the instances
HandleList ==
  /\ Serving
  /\ RegistryIdle
  /\ ret' = [op |-> "list", name |-> "", child |-> Cardinality(server_instances),
             res |-> "Ok"]
  /\ UNCHANGED <<instances, logs_join_handles, children, logs_dir, svc, ncalls, latest>>
  /\ UNCHANGED <<pkgVars, srvVars, hdlVars, fnVars>>

\* get_logs_readers(name), api_servers.rs:107-120: an error for a name without
\* an entry or a log file that cannot be opened
HandleLogs(n, io_ok) ==
  /\ Serving
  /\ RegistryIdle
  /\ LET f == get_output_stream_filenames(n)
         found == /\ HashMapContains(instances, n)
                  /\ io_ok
                  /\ {f.stdout, f.stderr} \subseteq DOMAIN logs_dir.paths
     IN ret' = [op |-> "logs", name |-> n, child |-> 0,
                res |-> IF found THEN "Ok" ELSE "Err"]
  /\ UNCHANGED <<instances, logs_join_handles, children, logs_dir, svc, ncalls, latest>>
  /\ UNCHANGED <<pkgVars, srvVars, hdlVars, fnVars>>

\* the client of a stop request in flight closes its connection: the
\* connection task drops the handler's future, with it the guard of the
\* service and the removed instance (the child is neither killed nor reaped)
HandlerDropped(c) ==
  /\ ~Exited
  /\ conns[c].state = "open"
  /\ svc.op = "stop"
  /\ svc' = NoCall
  /\ ret' = [op |-> "stop", name |-> svc.name, child |-> svc.child, res |-> "Dropped"]
  /\ conns' = [conns EXCEPT ![c].state = "finished"]
  /\ UNCHANGED <<instances, logs_join_handles, children, logs_dir, ncalls, latest>>
  /\ UNCHANGED <<args, coordinator, wait, net, clock, main>>
  /\ UNCHANGED <<pkgVars, hdlVars, fnVars>>

HandlerErrors == {"routing", "frontend", "install"}

\* service, server.rs:108-149: a request that cannot be routed, a frontend
\* file that cannot be served, an install that fails: the handler answers
\* with an error status on the connection c
HandlerError(c, kind) ==
  /\ ~Exited
  /\ conns[c].state = "open"
  /\ net.requests < MaxRequests
  /\ net' = [net EXCEPT !.requests = @ + 1, !.errors = @ + 1]
  /\ coordinator' = AfterHandlerError(coordinator)
  /\ clock' = IF Running THEN [clock EXCEPT !.since_request = 0] ELSE clock
  /\ UNCHANGED <<args, wait, conns, main>>
  /\ UNCHANGED <<regVars, pkgVars, hdlVars, fnVars>>

\* time passes once the accept loop is left
TickShutdown == ~Running /\ Tick

NextSupervisor ==
  \/ ConnArrive
  \/ ServeAccept
  \/ \E b \in {"request", "sigint", "idle"} : ServeShutdownCondition(b)
  \/ \E r \in {"Ok", "Err"} : ServeDrain(r)
  \/ MainAfterServe
  \/ \E h \in {"joined", "timeout"} : RegistryShutdownReturn(h)
  \/ \E c \in DOMAIN conns, route \in Routes : Request(c, route)
  \/ SigInt
  \/ \E c \in DOMAIN conns : ConnClose(c)
  \/ TickShutdown
  \/ HandleSpawn
  \/ \E c \in DOMAIN children : ChildExit(c)
  \/ \E o \in SpawnOutcomes : HandleSpawnFails(o)
  \/ \E n \in Names : HandleStop(n)
  \/ HandleStopWait
  \/ \E ok \in BOOLEAN : HandleStopCompress(ok)
  \/ \E o \in RemoveOutcomes : HandleStopRemove(o)
  \/ \E c \in DOMAIN conns, n \in Names : HandleStopPanics(c, n)
  \/ HandleList
  \/ \E n \in Names, ok \in BOOLEAN : HandleLogs(n, ok)
  \/ \E c \in DOMAIN conns : HandlerDropped(c)
  \/ \E c \in DOMAIN conns, k \in HandlerErrors : HandlerError(c, k)

\* main has parsed the arguments `a` and calls serve on a bound listener
NewServer(a) ==
  /\ args = a
  /\ coordinator = [state |-> "Running", listener |-> TRUE, cause |-> "none",
                    serve_result |-> "", fired |-> 0, idle_for |-> 0,
                    triggers |-> {}]
  /\ wait = NewWait
  /\ net = [backlog |-> 0, refused |-> 0, requests |-> 0, signals |-> 0,
            errors |-> 0]
  /\ conns = <<>>
  /\ clock = [now |-> 0, since_accept |-> 0, since_request |-> 0,
              since_drain |-> 0, since_shutdown |-> 0]
  /\ main = [pc |-> "serve", result |-> "", awaiting |-> {}, shutdown |-> ""]

InitServer == \E a \in Args : NewServer(a)

\* the arguments of a run without the idle shutdown
NoIdleArgs == [enable_idle_shutdown_timeout |-> FALSE, idle_shutdown_timeout |-> 1]

(***************************************************************************)
(* Semver: the comparisons of a pair of versions                           *)
(***************************************************************************)
\* the largest component of the versions compared
MaxComponent == 3

Semvers ==
  [major : 0..MaxComponent, minor : 0..MaxComponent, patch : 0..MaxComponent]

NoCompare ==
  [a |-> Semver(0, 0, 0), b |-> Semver(0, 0, 0), done |-> FALSE,
   lt |-> FALSE, eq |-> FALSE, gt |-> FALSE]

\* a < b, a == b and a > b are evaluated on the pair
Compare ==
  /\ ~cmp.done
  /\ cmp' = [cmp EXCEPT !.done = TRUE,
                        !.lt = lt(cmp.a, cmp.b),
                        !.eq = eq(cmp.a, cmp.b),
                        !.gt = gt(cmp.a, cmp.b)]
  /\ UNCHANGED <<regVars, pkgVars, srvVars, hdlVars>>
  /\ UNCHANGED <<parsed, tar, bind>>

(***************************************************************************)
(* Semver::from_string                                                     *)
(***************************************************************************)
\* the longest string parsed
MaxLen == 5

Digits == {"0", "1", "2"}
\* the characters of the strings parsed: digits, the separator, a sign and a
\* letter
Chars == Digits \cup {VERSION_SEMVER_SEPARATOR, "+", "x"}

RECURSIVE StringsOfLen(_)
StringsOfLen(n) ==
  IF n = 0 THEN {<<>>}
  ELSE {Append(t, c) : t \in StringsOfLen(n - 1), c \in Chars}
Strings == UNION {StringsOfLen(n) : n \in 0..MaxLen}

\* str::split(sep): the chunks between the separators; a string without a
\* separator, the empty one too, is a single chunk
RECURSIVE split(_, _)
split(source, sep) ==
  IF \A i \in DOMAIN source : source[i] # sep THEN <<source>>
  ELSE LET i == CHOOSE j \in DOMAIN source :
                  source[j] = sep /\ \A k \in 1..(j - 1) : source[k] # sep
       IN <<SubSeq(source, 1, i - 1)>>
            \o split(SubSeq(source, i + 1, Len(source)), sep)

DigitValue(c) == CASE c = "0" -> 0 [] c = "1" -> 1 [] c = "2" -> 2

RECURSIVE DecimalValue(_)
DecimalValue(digits) ==
  IF digits = <<>> THEN 0
  ELSE 10 * DecimalValue(SubSeq(digits, 1, Len(digits) - 1))
         + DigitValue(digits[Len(digits)])

ParseOkOf(n) == [ok |-> TRUE, value |-> n]
ParseErr == [ok |-> FALSE, value |-> 0]

\* str::parse::<usize>(): an optional "+" followed by at least one digit and
\* nothing else (a value of MaxLen digits is far below usize::MAX)
parse_usize(chunk) ==
  LET digits == IF chunk # <<>> /\ chunk[1] = "+"
                  THEN SubSeq(chunk, 2, Len(chunk)) ELSE chunk
  IN IF digits # <<>> /\ \A i \in DOMAIN digits : digits[i] \in Digits
       THEN ParseOkOf(DecimalValue(digits))
       ELSE ParseErr

FromStringOk(v) == [ok |-> TRUE, value |-> v]
FromStringErr == [ok |-> FALSE, value |-> Semver(0, 0, 0)]

\* Semver::from_string, semver.rs:33-47: the first three chunks are parsed in
\* turn, `?` returning the first error; split_version.next() of a chunk that
\* is not there is None, which unwrap_or turns into Ok(0); a fourth chunk is
\* never looked at
from_string(source) ==
  LET chunks == split(source, VERSION_SEMVER_SEPARATOR)
      next(i) == IF i <= Len(chunks) THEN parse_usize(chunks[i]) ELSE ParseOkOf(0)
  IN IF ~next(1).ok THEN FromStringErr
     ELSE IF ~next(2).ok THEN FromStringErr
     ELSE IF ~next(3).ok THEN FromStringErr
     ELSE FromStringOk(Semver(next(1).value, next(2).value, next(3).value))

NoParse == [source |-> <<>>, done |-> FALSE, result |-> FromStringErr]

\* Semver::try_from(value), semver.rs:56-70: the string is parsed
FromString ==
  /\ ~parsed.done
  /\ parsed' = [parsed EXCEPT !.done = TRUE, !.result = from_string(parsed.source)]
  /\ UNCHANGED <<regVars, pkgVars, srvVars, hdlVars>>
  /\ UNCHANGED <<cmp, tar, bind>>

(***************************************************************************)
(* compress_files and extract_archive (common/tarflate.rs)                 *)
(***************************************************************************)
\* a file name as Path::set_extension sees it: the part before the last dot
\* and the extension after it
FileName(stem, ext) == [stem |-> stem, ext |-> ext]
Path(dir, name) == [dir |-> dir, name |-> name]
NoPath == Path("", FileName("", ""))

\* Path::set_extension(ext): the extension after the last dot is replaced
set_extension(path, ext) == [path EXCEPT !.name.ext = ext]
\* Path::file_name(): the last component of the path
file_name(path) == path.name

\* what a file holds: the bytes of the original file `of`, nothing, a tar
\* stream of entries, or the gzip of one
Data(path) == [kind |-> "data", of |-> path, entries |-> <<>>]
Empty == [kind |-> "empty", of |-> NoPath, entries |-> <<>>]
TarOf(entries) == [kind |-> "tar", of |-> NoPath, entries |-> entries]
\* GzEncoder / GzDecoder over the bytes of a file
GzEncode(content) ==
  [content EXCEPT !.kind = CASE content.kind = "tar" -> "gz(tar)"
                             [] content.kind = "empty" -> "gz(empty)"
                             [] content.kind = "data" -> "gz(data)"
                             [] OTHER -> "gz(gz)"]
GzDecode(content) ==
  [content EXCEPT !.kind = CASE content.kind = "gz(tar)" -> "tar"
                             [] content.kind = "gz(empty)" -> "empty"
                             [] content.kind = "gz(data)" -> "data"
                             [] OTHER -> "invalid"]

\* OpenOptions create + truncate + write, then the bytes written
WriteFile(fs, path, content) ==
  [q \in (DOMAIN fs) \cup {path} |-> IF q = path THEN content ELSE fs[q]]
RemoveFile(fs, path) == [q \in (DOMAIN fs) \ {path} |-> fs[q]]

\* compress_files(out, src_paths), tarflate.rs:12-75: the temporary tar file
\* <out with extension "temp"> is created and truncated; every source is
\* appended under its file name, read as it is then; the tar stream is
\* gzipped into `out`; the temporary file is removed
tarflate_compress_files(fs, out, src_paths) ==
  LET temp_tar_file_path == set_extension(out, "temp")
      opened == WriteFile(fs, temp_tar_file_path, Empty)
      entries == [i \in 1..Len(src_paths) |->
                    [name |-> file_name(src_paths[i]),
                     content |-> opened[src_paths[i]]]]
      finished == WriteFile(opened, temp_tar_file_path, TarOf(entries))
      encoded == WriteFile(finished, out, GzEncode(finished[temp_tar_file_path]))
  IN RemoveFile(encoded, temp_tar_file_path)

\* Archive::unpack(out_dir): the entries 1..n are written in order, each to
\* out_dir/<name of the entry>
RECURSIVE Unpack_entries(_, _, _, _)
Unpack_entries(fs, entries, n, out_dir) ==
  IF n = 0 THEN fs
  ELSE WriteFile(Unpack_entries(fs, entries, n - 1, out_dir),
                 Path(out_dir, entries[n].name), entries[n].content)

\* extract_archive(src_path, out_dir), tarflate.rs:77-137: the archive is
\* inflated into <src_path with extension "inflated.temp">, which is
\* unpacked into out_dir and removed
extract_archive(fs, src_path, out_dir) ==
  LET temp_inflated_file_path == set_extension(src_path, "inflated.temp")
      inflated == WriteFile(fs, temp_inflated_file_path, GzDecode(fs[src_path]))
      unpacked == Unpack_entries(inflated, inflated[temp_inflated_file_path].entries,
                                 Len(inflated[temp_inflated_file_path].entries),
                                 out_dir)
  IN RemoveFile(unpacked, temp_inflated_file_path)

\* the directories and names of the files archived, the archive, and the
\* empty directory it is extracted into
TarDirs == {"logs", "other"}
TarNames == {FileName("a", "log"), FileName("b", "log"), FileName("out.tar", "temp")}
TarPaths == {Path(d, n) : d \in TarDirs, n \in TarNames}
OutName == FileName("out.tar", "gz")
OutDir == "extracted"

\* every path of TarPaths holds a file of its own bytes
OriginalFiles == [q \in TarPaths |-> Data(q)]

\* the lists of source files with pairwise distinct file names
MaxSources == 3
RECURSIVE SourceLists(_)
SourceLists(n) ==
  IF n = 0 THEN {<<>>}
  ELSE {Append(l, q) : l \in SourceLists(n - 1),
                       q \in TarPaths}
DistinctNames(l) ==
  \A i, j \in DOMAIN l : i # j => file_name(l[i]) # file_name(l[j])
Sources == {l \in UNION {SourceLists(n) : n \in 0..MaxSources} : DistinctNames(l)}

NoTar ==
  [fs |-> OriginalFiles, out |-> NoPath, src_paths |-> <<>>, pc |-> "new"]

\* compress_files(out, src_paths) is called
TarCompress ==
  /\ tar.pc = "new"
  /\ tar' = [tar EXCEPT !.pc = "compressed",
                        !.fs = tarflate_compress_files(tar.fs, tar.out, tar.src_paths)]
  /\ UNCHANGED <<regVars, pkgVars, srvVars, hdlVars>>
  /\ UNCHANGED <<cmp, parsed, bind>>

\* extract_archive(out, OutDir) is called on the archive made
TarExtract ==
  /\ tar.pc = "compressed"
  /\ tar' = [tar EXCEPT !.pc = "extracted",
                        !.fs = extract_archive(tar.fs, tar.out, OutDir)]
  /\ UNCHANGED <<regVars, pkgVars, srvVars, hdlVars>>
  /\ UNCHANGED <<cmp, parsed, bind>>

(***************************************************************************)
(* get_tcp_listener (main.rs)                                              *)
(***************************************************************************)
\* the largest --socket-retries tried
MaxRetries == 4
\* main.rs:26 is 7000..=9000; three ports of the range stand for it
PORT_RANGE == {7000, 7001, 9000}
\* the port --port gives
GivenPort == 8080

BindOutcomes == {"Ok", "AddrInUse", "PermissionDenied"}

\* Args::port, main.rs:45-47: an Option<u16>
NoPort == [some |-> FALSE, number |-> 0]
SomePort(p) == [some |-> TRUE, number |-> p]

\* Args as far as get_tcp_listener reads them, and the call: bind_attempts
\* is the variable of the loop, `tried` the ports bound so far, in order
BindCall(port, socket_retries) ==
  [port |-> port, socket_retries |-> socket_retries, bind_attempts |-> 1,
   tried |-> <<>>, outcomes |-> <<>>, result |-> ""]
NoBind == BindCall(NoPort, 0)

\* decide_port, main.rs:244-246: the port given, else a random one of the
\* range
decide_port(a) == IF a.port.some THEN {a.port.number} ELSE PORT_RANGE

\* one iteration of the loop of get_tcp_listener, main.rs:158-185, in which
\* TcpListener::bind(addr) has the outcome `outcome`
BindAttempt(port, outcome) ==
  /\ bind.result = ""
  /\ port \in decide_port(bind)
  /\ LET b == [bind EXCEPT !.tried = Append(@, port),
                           !.outcomes = Append(@, outcome)]
     IN bind' =
          CASE outcome = "Ok" -> [b EXCEPT !.result = "Ok"]
            [] outcome = "AddrInUse" ->
                 IF bind.port.some \/ bind.bind_attempts >= bind.socket_retries
                   THEN [b EXCEPT !.result = "AddressInUse"]
                   ELSE [b EXCEPT !.bind_attempts = @ + 1]
            [] OTHER -> [b EXCEPT !.result = "BindFailure"]
  /\ UNCHANGED <<regVars, pkgVars, srvVars, hdlVars>>
  /\ UNCHANGED <<cmp, parsed, tar>>


\* nothing parsed, archived or bound yet
NewFunctions == cmp = NoCompare /\ parsed = NoParse /\ tar = NoTar /\ bind = NoBind

\* no request handler has read the repository
NewHandlers == served = NoServed /\ checked = NoChecked /\ updates = NoUpdates

Init == InitRegistry /\ InitPackages /\ InitServer /\ NewHandlers /\ NewFunctions

Next == NextRegistry \/ NextPackages \/ NextServer

Spec == Init /\ [][Next]_vars

\* the registry alone, the repository staying as constructed over an empty disk
InitRegistryAlone ==
  /\ InitRegistry /\ NewRepository(NoManifest, <<>>) /\ NewServer(NoIdleArgs)
  /\ NewHandlers /\ NewFunctions

SpecRegistry == InitRegistryAlone /\ [][NextRegistry]_vars

\* the repository alone, the registry staying as constructed
InitPackagesAlone ==
  /\ InitRegistry /\ InitPackages /\ NewServer(NoIdleArgs)
  /\ NewHandlers /\ NewFunctions

SpecPackages == InitPackagesAlone /\ [][NextPackages]_vars

\* the packages repository with the requests of clients that read it
InitRequests ==
  /\ InitRegistry /\ InitPackages /\ NewServer(NoIdleArgs)
  /\ NewHandlers /\ NewFunctions

SpecRequests == InitRequests /\ [][NextRequests]_vars

\* the packages repository with the frontend-update requests
InitUpdate ==
  /\ InitRegistry /\ InitPackages /\ NewServer(NoIdleArgs)
  /\ NewHandlers /\ NewFunctions

SpecUpdate == InitUpdate /\ [][NextUpdate]_vars

\* main and serve, with the registry as far as request handlers spawn api
\* servers and main shuts it down
InitServerAlone ==
  /\ InitRegistry /\ NewRepository(NoManifest, <<>>) /\ InitServer
  /\ NewHandlers /\ NewFunctions

SpecServer == InitServerAlone /\ [][NextServer]_vars

\* main, serve and the request handlers over the registry, without the idle
\* shutdown.  The main task and the tasks of the handlers are polled when
\* they can go on, and the timers fire; a child need not ever exit.
InitSupervisor ==
  /\ InitRegistry /\ NewRepository(NoManifest, <<>>) /\ NewServer(NoIdleArgs)
  /\ NewHandlers /\ NewFunctions

SpecSupervisor ==
  /\ InitSupervisor
  /\ [][NextSupervisor]_vars
  /\ WF_vars(\E b \in {"request", "sigint", "idle"} : ServeShutdownCondition(b))
  /\ WF_vars(\E r \in {"Ok", "Err"} : ServeDrain(r))
  /\ WF_vars(MainAfterServe)
  /\ WF_vars(\E h \in {"joined", "timeout"} : RegistryShutdownReturn(h))
  /\ WF_vars(TickShutdown)
  /\ WF_vars(HandleStopWait)
  /\ WF_vars(\E ok \in BOOLEAN : HandleStopCompress(ok))
  /\ WF_vars(\E o \in RemoveOutcomes : HandleStopRemove(o))

\* the comparisons of every pair of versions with components up to MaxComponent
InitSemver ==
  /\ InitRegistry /\ NewRepository(NoManifest, <<>>) /\ NewServer(NoIdleArgs)
  /\ NewHandlers
  /\ parsed = NoParse /\ tar = NoTar /\ bind = NoBind
  /\ \E a \in Semvers, b \in Semvers : cmp = [NoCompare EXCEPT !.a = a, !.b = b]

NextSemver == Compare

SpecSemver == InitSemver /\ [][NextSemver]_vars

\* the parse of every string of up to MaxLen characters
InitFromString ==
  /\ InitRegistry /\ NewRepository(NoManifest, <<>>) /\ NewServer(NoIdleArgs)
  /\ NewHandlers
  /\ cmp = NoCompare /\ tar = NoTar /\ bind = NoBind
  /\ \E source \in Strings : parsed = [NoParse EXCEPT !.source = source]

NextFromString == FromString

SpecFromString == InitFromString /\ [][NextFromString]_vars

\* the round trip of every list of sources, with the archive in either
\* directory
InitTarflate ==
  /\ InitRegistry /\ NewRepository(NoManifest, <<>>) /\ NewServer(NoIdleArgs)
  /\ NewHandlers
  /\ cmp = NoCompare /\ parsed = NoParse /\ bind = NoBind
  /\ \E d \in TarDirs, l \in Sources :
       tar = [NoTar EXCEPT !.out = Path(d, OutName), !.src_paths = l]

NextTarflate == TarCompress \/ TarExtract

\* get_tcp_listener with and without --port, for every --socket-retries up
\* to MaxRetries
InitListener ==
  /\ InitRegistry /\ NewRepository(NoManifest, <<>>) /\ NewServer(NoIdleArgs)
  /\ NewHandlers
  /\ cmp = NoCompare /\ parsed = NoParse /\ tar = NoTar
  /\ \E given \in BOOLEAN, r \in 0..MaxRetries :
       bind = BindCall(IF given THEN SomePort(GivenPort) ELSE NoPort, r)

NextListener ==
  \E port \in PORT_RANGE \cup {GivenPort}, o \in BindOutcomes : BindAttempt(port, o)

SpecListener == InitListener /\ [][NextListener]_vars

SpecTarflate == InitTarflate /\ [][NextTarflate]_vars

(***************************************************************************)
(* Claims about the process registry (checked under SpecRegistry)          *)
(***************************************************************************)
StopReturnedOk == ret.op = "stop" /\ ret.res = "Ok"

\* C1: after stop(name) returns Ok, server_instances() has no entry for name,
\* the two raw log files of name no longer exist in the logs directory, and
\* <name>_logs_archive.tar.gz exists and holds exactly the two log streams.
C1_StopThenList ==
  StopReturnedOk =>
    LET f == get_output_stream_filenames(ret.name) IN
    /\ ~\E e \in server_instances : e.name = ret.name
    /\ f.stdout \notin DOMAIN logs_dir.paths
    /\ f.stderr \notin DOMAIN logs_dir.paths
    /\ ArchiveName(ret.name) \in DOMAIN logs_dir.archives
    /\ DOMAIN logs_dir.archives[ArchiveName(ret.name)] = {f.stdout, f.stderr}

\* a stop of "a" returned Ok after its child had written to a pipe
C1_Witness ==
  /\ StopReturnedOk
  /\ ret.name = "a"
  /\ "a_logs_archive.tar.gz" \in DOMAIN logs_dir.archives
  /\ \E s \in Streams : children[ret.child].wrote[s] > 0

\* C2: for a child that exited, the archive made by stop(name) holds every
\* byte the child wrote to stdout and to stderr, under every interleaving of
\* the log-writer task with stop's wait, archival and deletion steps.
C2_ArchiveHoldsEveryByte ==
  StopReturnedOk =>
    LET f == get_output_stream_filenames(ret.name)
        entries == logs_dir.archives[ArchiveName(ret.name)]
        c == ret.child
    IN \A s \in Streams :
         /\ Len(entries[f[s]]) >= children[c].wrote[s]
         /\ \A k \in 1..children[c].wrote[s] : entries[f[s]][k] = c

\* the address the listing must show for a port
ExpectedAddress(port) ==
  CASE port = 4000 -> "127.0.0.1:4000"
    [] port = 4001 -> "127.0.0.1:4001"

\* C3: server_instances() holds exactly one entry for every name whose latest
\* successful spawn has not been followed by a stop call on that name, with
\* the address "127.0.0.1:<port>" of that spawn, and no entry for other names.
C3_RegistryMatchesCalls ==
  \A n \in Names :
    LET entries == {e \in server_instances : e.name = n} IN
    IF latest[n] = 0
      THEN entries = {}
      ELSE /\ Cardinality(entries) = 1
           /\ \A e \in entries : e.address = ExpectedAddress(latest[n])

\* "a" was spawned twice with success, first on 4000 and then on 4001, with no
\* stop in between, and the listing shows the second spawn
C3_Witness ==
  /\ ncalls = 2
  /\ logs_join_handles = <<1, 2>>
  /\ children[1].name = "a" /\ children[2].name = "a"
  /\ latest["a"] = 4001
  /\ \E e \in server_instances :
       e.name = "a" /\ e.address = "127.0.0.1:4001" /\ e.handle = 2

\* C4: for every name, at most one live child process launched by a
\* successful spawn under that name exists at any moment.
C4_OneLiveChildPerName ==
  \A n \in Names :
    Cardinality({c \in DOMAIN children :
                   children[c].name = n /\ children[c].writer /\ children[c].alive}) <= 1

\* the step is a call of stop(n): it found no entry, or removed the entry and
\* holds the service from then on
StopCalled(n) ==
  /\ ncalls' = ncalls + 1
  /\ \/ svc.op = "idle" /\ svc'.op = "stop" /\ svc'.name = n
     \/ ret'.op = "stop" /\ ret'.name = n /\ ret'.res = "NotFound" /\ svc' = svc

\* C24: stop(name) on a name that is not registered fails with not found and
\* changes nothing; after one stop(name) call has removed the instance, a
\* second stop(name) without a new spawn fails with not found and sends no
\* signal: no child is ever sent the termination signal twice.
C24_StopAtMostOnce ==
  [][ /\ \A n \in Names :
           StopCalled(n) =>
             /\ ~HashMapContains(instances', n)
             /\ (~HashMapContains(instances, n) \/ latest[n] = 0) =>
                  /\ ret'.op = "stop" /\ ret'.res = "NotFound"
                  /\ UNCHANGED <<instances, logs_join_handles, children, logs_dir, svc>>
      /\ \A c \in DOMAIN children' : children'[c].sigterms <= 1
    ]_vars

\* "a" was stopped, and a second stop of "a" found nothing and sent no signal
C24_Witness ==
  /\ ret = [op |-> "stop", name |-> "a", child |-> 0, res |-> "NotFound"]
  /\ ncalls = 3
  /\ Len(children) = 1 /\ children[1].name = "a" /\ children[1].sigterms = 1

\* C25: when the child has exited but the archival of its logs fails, stop
\* returns the archival error and the instance stays removed:
\* server_instances() has no entry for the name after the failed stop.
C25_ArchiveErrorKeepsRemoved ==
  (ret.op = "stop" /\ ret.res = "ArchiveErr") =>
    /\ ~children[ret.child].alive
    /\ children[ret.child].sigterms = 1
    /\ ~\E e \in server_instances : e.name = ret.name
    /\ RegistryIdle

\* the stop of "a" failed at the compression: the raw logs are still there
C25_Witness ==
  /\ ret.op = "stop" /\ ret.res = "ArchiveErr" /\ ret.name = "a"
  /\ "a_logs_archive.tar.gz" \notin DOMAIN logs_dir.archives
  /\ "mwa_a_stdout" \in DOMAIN logs_dir.paths

\* C26: when spawn(name, args) fails, because the binary cannot be launched
\* or one of the two log files cannot be opened, the instance map (any
\* earlier entry of the name included) and the log-writer task handles are
\* the same as before the call.
C26_FailedSpawnRegistersNothing ==
  [][ (ncalls' = ncalls + 1 /\ ret'.op = "spawn" /\ ret'.res = "Err") =>
        /\ instances' = instances
        /\ logs_join_handles' = logs_join_handles
    ]_vars

\* a second spawn of "a" failed at a log file: the entry of the first is kept
C26_Witness ==
  /\ ret = [op |-> "spawn", name |-> "a", child |-> 2, res |-> "Err"]
  /\ \E e \in server_instances : e.name = "a" /\ e.handle = 1
  /\ logs_join_handles = <<1>>

VersionBefore(a, b) ==
  \/ a.major < b.major
  \/ a.major = b.major /\ a.minor < b.minor
  \/ a.major = b.major /\ a.minor = b.minor /\ a.patch < b.patch

\* the version strings of the three packages
VersionText(v) ==
  CASE v = Semver(1, 2, 3) -> "1.2.3"
    [] v = Semver(1, 3, 0) -> "1.3.0"
    [] v = Semver(2, 0, 0) -> "2.0.0"

HasStep(name, ok) == \E i \in DOMAIN inst.steps : inst.steps[i] = Step(name, ok)
Renamed == HasStep("rename", TRUE)
Returned == inst.pc = "returned"

\* every staged file is in the content directory of the staged version, with
\* the staged content (the manifest aside once it has been renamed away)
StagedTreeCopied ==
  LET d == ContentDir(inst.temp_version) IN
  /\ d \in DOMAIN frontend_dir
  /\ \A f \in DOMAIN inst.staged :
       (f = PKG_MANIFEST_NAME /\ Renamed)
         \/ (f \in DOMAIN frontend_dir[d] /\ frontend_dir[d][f] = inst.staged[f])

C6_OutdatedInstall ==
  (/\ Returned /\ HasStep("check_temp", TRUE)
   /\ inst.prev_installed.some
   /\ inst.prev_manifest = ManifestOf(inst.prev_installed.version)
   /\ VersionBefore(inst.temp_version, inst.prev_installed.version)) =>
    LET v0 == inst.temp_version
        v1 == inst.prev_installed.version
    IN IF ~inst.force
         THEN /\ inst.result = [kind |-> "PkgOutdated", provided |-> VersionText(v0),
                                served |-> VersionText(v1)]
              /\ installed = Some(v1)
              /\ home_manifest = ManifestOf(v1)
         ELSE ~inst.faulted =>
                /\ inst.result = Ok
                /\ installed = Some(v0)
                /\ home_manifest = ManifestOf(v0)

\* 1.2.3 was refused over 2.0.0 with both version strings in the error
C6_Witness ==
  /\ Returned /\ ~inst.force
  /\ inst.result = [kind |-> "PkgOutdated", provided |-> "1.2.3", served |-> "2.0.0"]
  /\ installed = Some(Semver(2, 0, 0))

EqualVersionInstall ==
  /\ Returned /\ HasStep("check_temp", TRUE)
  /\ ~inst.force
  /\ inst.prev_installed.some
  /\ inst.temp_version = inst.prev_installed.version

\* C7 as claimed: installing the installed version again with
\* force_outdated = false fails with a version-conflict error and leaves the
\* installed cache and manifest unchanged (stated for the calls in which no
\* step is hit by an I/O error).
C7_EqualVersionRefused ==
  (EqualVersionInstall /\ ~inst.faulted) =>
    /\ inst.result.kind = "PkgOutdated"
    /\ installed = inst.prev_installed
    /\ home_manifest = inst.prev_manifest

\* C7 as amended: installing the installed version again with
\* force_outdated = false passes the version check (it never returns the
\* version-conflict error); when no step is hit by an I/O error it returns Ok,
\* cache and manifest report the same version as before, and the content
\* directory of that version holds the staged files.
C7_EqualVersionAccepted ==
  EqualVersionInstall =>
    /\ inst.result.kind # "PkgOutdated"
    /\ ~inst.faulted =>
         /\ inst.result = Ok
         /\ installed = inst.prev_installed
         /\ home_manifest = ManifestOf(inst.prev_installed.version)
         /\ StagedTreeCopied

\* 1.3.0 was installed over 1.3.0 without force and the call returned Ok
C7_Witness ==
  /\ EqualVersionInstall
  /\ inst.result = Ok
  /\ installed = Some(Semver(1, 3, 0))
  /\ inst.pkg = 2

\* C8: until the manifest rename has happened (the call running, returned
\* with an error, or cut by a crash) the installed manifest on disk is the one
\* of before the call; the staged tree is fully copied when the rename is
\* reached; once the rename has happened the manifest reports the new version.
C8_RenameIsCommitPoint ==
  (inst.pc \notin {"new", "idle"}) =>
    /\ ~Renamed => home_manifest = inst.prev_manifest
    /\ Renamed => home_manifest = ManifestOf(inst.temp_version)
    /\ (inst.pc = "rename" \/ Renamed) => StagedTreeCopied

\* a crash right after the rename of 2.0.0 over 1.3.0, before the cache reload
C8_Witness ==
  /\ inst.pc = "crashed" /\ Renamed /\ ~HasStep("reload", TRUE)
  /\ inst.prev_manifest = ManifestOf(Semver(1, 3, 0))
  /\ home_manifest = ManifestOf(Semver(2, 0, 0))

\* C9 as claimed: a failed step is the last step of the call, and a call in
\* which a step failed returns an error.
C9_AnyFailureAborts ==
  /\ \A i \in DOMAIN inst.steps : ~inst.steps[i].ok => i = Len(inst.steps)
  /\ (Returned /\ \E i \in DOMAIN inst.steps : ~inst.steps[i].ok) =>
       inst.result.kind # "Ok"

\* C9 as amended: a failed step other than the removal of the staging
\* directory is the last step of the call, which returns an error; a failed
\* removal of the staging directory is followed by the rename; the effects of
\* the steps that passed are still there.
C9_FailureAbortsExceptTempRemoval ==
  /\ \A i \in DOMAIN inst.steps :
       ~inst.steps[i].ok =>
         IF inst.steps[i].step = "remove_temp"
           THEN i < Len(inst.steps) \/ inst.pc \in {"rename", "crashed"}
           ELSE /\ i = Len(inst.steps)
                /\ inst.pc \in {"returned", "crashed"}
                /\ inst.result.kind \notin {"", "Ok"}
  /\ (HasStep("extract", TRUE) /\ ~HasStep("remove_temp", TRUE)) =>
       /\ temp_dir.exists
       /\ \A f \in PkgFiles(inst.pkg) :
            f \in DOMAIN temp_dir.files /\ temp_dir.files[f] = inst.pkg
  /\ (HasStep("check_temp", TRUE) /\ inst.pc \in {"compare", "mkdir", "copy", "remove_temp"}) =>
       temp = Some(inst.temp_version)
  /\ HasStep("copy", TRUE) => StagedTreeCopied
  /\ Renamed => home_manifest = ManifestOf(inst.temp_version)

\* the copy failed after a file had been copied: the call returned an error
\* and the staging directory and the copied file are still there
C9_Witness ==
  /\ Returned /\ HasStep("copy", FALSE)
  /\ inst.copied # {}
  /\ inst.result.kind = "HomeDirInaccessible"
  /\ temp_dir.exists

\* C10: after install_package has returned, with success or with an error
\* raised after the extraction (no I/O error involved), the staging directory
\* is removed and get_temp() fails with package unavailable.
C10_NoTempAfterReturn ==
  (Returned /\ HasStep("extract", TRUE) /\ ~inst.faulted) =>
    /\ ~temp_dir.exists
    /\ get_temp.kind = "PackageUnavailable"

\* C11: at every point where a caller can look at the repository (no
\* install_package call in progress), a cached package is one loaded after the
\* last change install_package made to its directory: the installed cache
\* states the version of the manifest on disk, the temp cache the version of
\* the manifest in the staging directory.
C11_CachesLoadedAfterMutation ==
  Returned =>
    /\ installed.some =>
         /\ home_manifest.exists /\ home_manifest.valid
         /\ installed.version = home_manifest.version
    /\ temp.some =>
         /\ TempManifest.exists /\ TempManifest.valid
         /\ temp.version = TempManifest.version

\* C12: init() leaves the repository usable and returns nothing; after it the
\* installed cache holds a package exactly when the manifest on disk exists
\* and parses, get_installed() fails with package unavailable otherwise, and
\* get_temp() fails with package unavailable; later the temp cache holds a
\* package only while an extracted package is staged.
C12_InitNeverRaises ==
  /\ inst.pc = "idle" =>
       /\ inst.result = NoResult
       /\ installed.some <=> (home_manifest.exists /\ home_manifest.valid)
       /\ installed.some => installed.version = home_manifest.version
       /\ ~installed.some => get_installed.kind = "PackageUnavailable"
       /\ get_temp.kind = "PackageUnavailable"
  /\ get_temp.kind # "PackageUnavailable" =>
       /\ installs.count > 0
       /\ temp_dir.exists /\ PKG_MANIFEST_NAME \in DOMAIN temp_dir.files
       /\ ~HasStep("remove_temp", TRUE) /\ ~HasStep("remove_temp", FALSE)

C12_Witness ==
  /\ inst.pc = "idle"
  /\ home_manifest = CorruptManifest
  /\ get_installed.kind = "PackageUnavailable"
  /\ get_temp.kind = "PackageUnavailable"

(***************************************************************************)
(* Claims about the requests over the repository (checked under            *)
(* SpecRequests)                                                           *)
(***************************************************************************)
\* C28: no install_package call starts while another is in progress, and no
\* read of a frontend file and no latest-release check happens while an
\* install is in progress.
C28_NothingOverlapsInstall ==
  [][ InProgress =>
        /\ installs'.count = installs.count
        /\ checked' = checked
        /\ served' = served
    ]_vars

(***************************************************************************)
(* Claims about the shutdown coordinator (checked under SpecServer)        *)
(***************************************************************************)
\* C13: a manual trigger or an interrupt signal issued while the accept loop
\* is Running is never lost: as long as the loop is still Running the trigger
\* is pending on the future the loop waits on.
C13_TriggerNeverLost ==
  \A t \in coordinator.triggers :
    \/ ~Running
    \/ t = "request" /\ wait.notified
    \/ t = "sigint" /\ wait.ctrl_c

\* C14: serve has not returned Ok before the grace period is over unless
\* every connection accepted before the shutdown condition has finished.
C14_DrainWaitsForConnections ==
  (coordinator.serve_result = "Ok"
     /\ clock.since_drain < GRACEFUL_SHUTDOWN_TIMEOUT_SEC) =>
    \A c \in DOMAIN conns : conns[c].state = "finished"

\* C15: when the grace period has gone by since the loop left Running and an
\* accepted connection has not finished, serve has returned an error and so
\* has main.
C15_GraceElapsedIsError ==
  (clock.since_drain >= GRACEFUL_SHUTDOWN_TIMEOUT_SEC
     /\ \E c \in DOMAIN conns : conns[c].state # "finished") =>
    /\ coordinator.serve_result = "Err"
    /\ main.result = "Err"

\* C16: the accept loop only moves Running -> Draining -> Stopped; the
\* shutdown condition fires at most once; once the loop has left Running the
\* listener is dropped and stays so and no connection is accepted any more.
C16_ForwardOnly ==
  [][ /\ Draining => coordinator'.state \in {"Draining", "Stopped"}
      /\ Stopped => coordinator'.state = "Stopped"
      /\ coordinator'.fired <= 1
      /\ ~Running =>
           /\ ~coordinator.listener /\ ~coordinator'.listener
           /\ Len(conns') = Len(conns)
           /\ net'.backlog = 0
           /\ coordinator'.fired = coordinator.fired
           /\ coordinator'.cause = coordinator.cause ]_vars

C16_Witness ==
  /\ Stopped
  /\ Len(conns) > 0
  /\ net.refused > 0

\* C17: with the idle shutdown enabled with timeout T, the idle timer shows
\* the time since the most recent accepted connection (since the start if
\* none), the loop is not Running with more than T on it, and the idle
\* trigger fires with exactly T on it.
C17_IdleWindowRestartsOnAccept ==
  args.enable_idle_shutdown_timeout =>
    /\ Running =>
         /\ wait.sleep = clock.since_accept
         /\ clock.since_accept <= args.idle_shutdown_timeout
    /\ coordinator.cause = "idle" =>
         coordinator.idle_for = args.idle_shutdown_timeout

\* a connection accepted at 1 of a window of 2 keeps the loop Running at 3
C17_Witness ==
  /\ args.enable_idle_shutdown_timeout
  /\ args.idle_shutdown_timeout = 2
  /\ Running
  /\ Len(conns) = 1
  /\ clock.now = 3
  /\ clock.since_accept = 2

\* C18: with the idle shutdown enabled, every request restarts the idle
\* interval: the idle timer never shows more than the time since the most
\* recent request.
C18_RequestResetsIdleInterval ==
  (args.enable_idle_shutdown_timeout /\ Running) =>
    wait.sleep <= clock.since_request

\* C19: without --enable-idle-shutdown-timeout the loop never leaves Running
\* by the idle trigger: it has left Running only after a manual trigger or an
\* interrupt signal, whatever --idle-shutdown-timeout is.
C19_IdleOffUnlessEnabled ==
  ~args.enable_idle_shutdown_timeout =>
    /\ coordinator.cause \in {"none", "request", "sigint"}
    /\ ~Running =>
         /\ coordinator.cause \in coordinator.triggers
         /\ coordinator.triggers # {}

C19_Witness ==
  /\ ~args.enable_idle_shutdown_timeout
  /\ Running
  /\ clock.now > args.idle_shutdown_timeout

\* C20: the registry's shutdown is called only after serve has returned, and
\* the process exits only after the drain of the accepted connections has
\* completed or timed out and the wait for the log-writer tasks has completed
\* or timed out.
C20_ExitAfterDrainAndRegistryWait ==
  /\ main.pc = "registry_shutdown" => Stopped
  /\ Exited =>
       /\ Stopped
       /\ \/ \A c \in DOMAIN conns : conns[c].state = "finished"
          \/ clock.since_drain >= GRACEFUL_SHUTDOWN_TIMEOUT_SEC
       /\ main.shutdown \in {"joined", "timeout"}


\* C22: the registry's shutdown(timeout) returns as soon as all accumulated
\* log-writer tasks have completed (no time passes once they have), and
\* otherwise returns when timeout seconds have elapsed, leaving the writer
\* tasks still running; it never waits longer than the timeout.
C22_ShutdownBounded ==
  [][ /\ clock'.since_shutdown <= ShutdownTimeout
      /\ (main.pc = "registry_shutdown" /\ \A c \in main.awaiting : WriterDone(c)) =>
           clock'.since_shutdown = clock.since_shutdown
      /\ main'.shutdown = "joined" => \A c \in main'.awaiting : WriterDone(c)'
      /\ main'.shutdown = "timeout" => clock'.since_shutdown = ShutdownTimeout
      /\ main'.pc = "registry_shutdown" => logs_join_handles' = <<>>
    ]_vars

\* shutdown returned by its timeout with the writer task of a live child
\* still running
C22_Witness ==
  /\ Exited /\ main.shutdown = "timeout"
  /\ clock.since_shutdown = ShutdownTimeout
  /\ \E c \in main.awaiting : children[c].alive

\* C23: after the registry's shutdown has returned, no child process that was
\* still registered when shutdown was called is left running.
C23_NoChildLeftAfterShutdown ==
  (Exited /\ main.shutdown \in {"joined", "timeout"}) =>
    \A e \in instances : ~children[e.handle].alive

(***************************************************************************)
(* Claims about main and the request handlers (checked under               *)
(* SpecSupervisor)                                                         *)
(***************************************************************************)
\* C21: once the shutdown condition has fired, the process eventually exits,
\* even when a request handler in flight (a stop waiting on a child that
\* ignores SIGTERM, holding the lock of the registry) never completes.
C21_ShutdownTerminates == (~Running) ~> Exited

\* a call of spawn, stop, list, logs or shutdown starts in this step
OperationStarts ==
  \/ ncalls' > ncalls
  \/ ret' # ret /\ ret'.op \in {"list", "logs"}
  \/ svc.op # "shutdown" /\ svc'.op = "shutdown"

\* C27: at most one operation of the registry (spawn, stop, list, logs,
\* shutdown) executes at a time: while one is in progress, and so while a
\* stop waits for its child to exit, no other operation starts and nothing
\* but the operation in progress changes the registry or returns.
C27_OneRegistryOperationAtATime ==
  [][ svc.op # "idle" =>
        /\ ~OperationStarts
        /\ svc'.op \in {svc.op, "idle"}
        /\ instances' = instances
        /\ logs_join_handles' = logs_join_handles
        /\ ret' # ret => svc'.op = "idle" /\ ret'.op = svc.op /\ ret'.name = svc.name
    ]_vars

\* a stop waits for a child that has not exited, while a connection is open
\* for further requests and main, past serve, waits to call shutdown
C27_Witness ==
  /\ svc.op = "stop" /\ svc.pc = "wait" /\ children[svc.child].alive
  /\ Serving /\ ncalls < MaxCalls
  /\ Stopped /\ main.pc = "serve" /\ coordinator.serve_result = "Ok"

\* a request handler ends with an error, or aborts, in this step
HandlerErrorStep ==
  \/ net'.errors > net.errors
  \/ ret' # ret /\ ret'.res \in {"Err", "NotFound", "ArchiveErr", "Panic"}

\* C29: an error of a request handler (a routing error, a failed spawn, stop,
\* install or file serving, a handler that aborts) changes nothing of the
\* accept loop or of main: serve does not return because of it, and as long
\* as no shutdown condition was triggered the loop is Running with its
\* listener open.
C29_HandlerErrorKeepsServing ==
  [][ /\ HandlerErrorStep =>
           /\ coordinator' = coordinator
           /\ wait' = wait
           /\ main' = main
      /\ coordinator'.triggers = {} =>
           coordinator'.state = "Running" /\ coordinator'.listener
    ]_vars

\* the first call of the registry failed without launching a child, errors
\* were answered, and a later spawn request was served by the Running loop
C29_Witness ==
  /\ Running /\ coordinator.listener
  /\ net.errors > 0
  /\ ncalls = 2 /\ Len(children) = 1
  /\ ret.op = "spawn" /\ ret.res = "Ok"

(***************************************************************************)
(* Claims about Semver (checked under SpecSemver)                          *)
(***************************************************************************)
\* C30: the order on Semver values is a strict total order equal to the
\* lexicographic comparison of (major, minor, patch), major first: of a < b,
\* a == b, a > b exactly one holds; a == b holds iff the three components are
\* equal; 1.2.3 < 1.3.0 < 2.0.0.
C30_SemverStrictTotalOrder ==
  cmp.done =>
    /\ Cardinality({r \in {"lt", "eq", "gt"} : cmp[r]}) = 1
    /\ cmp.eq <=> cmp.a = cmp.b
    /\ cmp.lt <=> VersionBefore(cmp.a, cmp.b)
    /\ cmp.gt <=> VersionBefore(cmp.b, cmp.a)
    /\ (cmp.a = Semver(1, 2, 3) /\ cmp.b = Semver(1, 3, 0)) => cmp.lt
    /\ (cmp.a = Semver(1, 3, 0) /\ cmp.b = Semver(2, 0, 0)) => cmp.lt
    /\ (cmp.a = Semver(1, 2, 3) /\ cmp.b = Semver(2, 0, 0)) => cmp.lt
    /\ (cmp.a = Semver(2, 0, 0) /\ cmp.b = Semver(1, 3, 0)) => cmp.gt

\* 1.2.3 was compared with 1.3.0 and found less
C30_Witness ==
  /\ cmp.done
  /\ cmp.a = Semver(1, 2, 3) /\ cmp.b = Semver(1, 3, 0)
  /\ cmp.lt /\ ~cmp.eq /\ ~cmp.gt
(***************************************************************************)
(* Claims about Semver::from_string (checked under SpecFromString)         *)
(***************************************************************************)
\* an unsigned decimal number: one digit or more and nothing else
IsUnsignedDecimal(chunk) ==
  chunk # <<>> /\ \A i \in DOMAIN chunk : chunk[i] \in Digits

\* a string with fewer than three components parses to what it parses to
\* with ".0" appended
MissingComponentsAreZero ==
  parsed.done =>
    /\ Len(split(parsed.source, VERSION_SEMVER_SEPARATOR)) < 3 =>
         parsed.result =
           from_string(parsed.source \o <<VERSION_SEMVER_SEPARATOR, "0">>)
    /\ parsed.source = <<"1", ".", "2">> =>
         parsed.result = FromStringOk(Semver(1, 2, 0))
    /\ parsed.source = <<"1">> => parsed.result = FromStringOk(Semver(1, 0, 0))

\* C31: a missing trailing component parses as 0 ("1.2" as "1.2.0", "1" as
\* "1.0.0"), and a string whose first, second or third component is not an
\* unsigned decimal number is rejected with an error.
C31_FromStringDefaultsAndRejects ==
  /\ MissingComponentsAreZero
  /\ parsed.done =>
       LET chunks == split(parsed.source, VERSION_SEMVER_SEPARATOR) IN
       (\E i \in 1..3 : i <= Len(chunks) /\ ~IsUnsignedDecimal(chunks[i])) =>
         ~parsed.result.ok

(***************************************************************************)
(* Claims about the archives (checked under SpecTarflate)                  *)
(***************************************************************************)
\* the files the directory `dir` holds
FilesIn(fs, dir) == {q \in DOMAIN fs : q.dir = dir}

\* C32: for files with pairwise distinct file names, extracting the archive
\* compress_files made of them into an empty directory yields exactly one
\* file per source, named by the file name of the source and holding the
\* bytes the source had, whatever directories the sources were in.
C32_ArchiveRoundTrip ==
  tar.pc = "extracted" =>
    /\ FilesIn(tar.fs, OutDir) =
         {Path(OutDir, file_name(tar.src_paths[i])) : i \in DOMAIN tar.src_paths}
    /\ \A i \in DOMAIN tar.src_paths :
         /\ Path(OutDir, file_name(tar.src_paths[i])) \in DOMAIN tar.fs
         /\ tar.fs[Path(OutDir, file_name(tar.src_paths[i]))]
              = OriginalFiles[tar.src_paths[i]]


(***************************************************************************)
(* Claims about get_tcp_listener                                           *)
(***************************************************************************)
\* the bind attempts of the call after the first one
Retries == Len(bind.tried) - 1

\* the call gave up on an address in use, never having seen another outcome
GaveUpInUse ==
  /\ bind.result = "AddressInUse"
  /\ \A i \in 1..Len(bind.outcomes) : bind.outcomes[i] = "AddrInUse"

\* with --port one bind attempt is made; an outcome other than address in
\* use ends the call at once; the loop makes at most socket_retries + 1
\* attempts
BindLoopBounded ==
  /\ bind.port.some => Len(bind.tried) <= 1
  /\ \A i \in 1..Len(bind.outcomes) :
       bind.outcomes[i] # "AddrInUse" =>
         /\ i = Len(bind.outcomes)
         /\ bind.result = IF bind.outcomes[i] = "Ok" THEN "Ok" ELSE "BindFailure"
  /\ Len(bind.tried) <= bind.socket_retries + 1

\* C34: without --port, when every bind attempt fails with address in use,
\* get_tcp_listener retries socket_retries times and then returns
\* AddressInUse; with --port it makes one attempt; any other bind error is
\* returned at once, so the loop terminates.
C34_RetriesSocketRetriesTimes ==
  /\ (GaveUpInUse /\ ~bind.port.some) => Retries = bind.socket_retries
  /\ BindLoopBounded


(***************************************************************************)
(* Claims about stop and spawn of the registry                             *)
(***************************************************************************)
\* a call of stop ends in this step with the signal not delivered
SignalFailsStep == ncalls' = ncalls + 1 /\ ret'.op = "stop" /\ ret'.res = "Panic"

\* C35: when delivering the termination signal fails during stop(name), the
\* call is aborted without a retry: no call of stop is left in progress, the
\* child got no signal and was not waited for, the instance removed by the
\* call stays removed, and no log is archived or removed.
C35_SignalFailureAbortsStop ==
  /\ [][SignalFailsStep =>
          /\ HashMapContains(instances, ret'.name)
          /\ ~HashMapContains(instances', ret'.name)
          /\ children' = children
          /\ logs_dir' = logs_dir
          /\ svc' = NoCall]_vars
  /\ [](ret.res = "Panic" =>
          /\ ~HashMapContains(instances, ret.name)
          /\ svc.op # "stop")

\* stop was aborted by the failed signal: its child runs on, unregistered,
\* with both log files in place
C35_Witness ==
  /\ ret.op = "stop" /\ ret.res = "Panic"
  /\ children[ret.child].alive /\ children[ret.child].sigterms = 0
  /\ ~HashMapContains(instances, ret.name)
  /\ {get_output_stream_filenames(ret.name).stdout,
      get_output_stream_filenames(ret.name).stderr} \subseteq DOMAIN logs_dir.paths

\* a call of spawn returns in this step
SpawnReturns == ncalls' = ncalls + 1 /\ ret'.op = "spawn"
\* a step of a call of stop
StopSteps ==
  \/ ncalls' = ncalls + 1 /\ (ret'.op = "stop" \/ svc'.op = "stop")
  \/ svc.op = "stop" /\ svc' # svc
\* the shutdown of the registry is called in this step
ShutdownCalled == svc.op # "shutdown" /\ svc'.op = "shutdown"
\* the handles as a set
HandleSet(handles) == {handles[i] : i \in DOMAIN handles}

\* C36: a successful spawn adds exactly one log-writer task handle to the
\* handles of the registry and a failed spawn none; stop neither awaits nor
\* removes a handle; the handles are awaited by the shutdown of the registry
\* alone, which takes them all and leaves none.
C36_HandlesKeptUntilShutdown ==
  [][/\ SpawnReturns =>
          IF ret'.res = "Ok"
            THEN /\ Len(logs_join_handles') = Len(logs_join_handles) + 1
                 /\ SubSeq(logs_join_handles', 1, Len(logs_join_handles))
                      = logs_join_handles
                 /\ logs_join_handles'[Len(logs_join_handles')] = ret'.child
            ELSE logs_join_handles' = logs_join_handles
     /\ StopSteps =>
          logs_join_handles' = logs_join_handles /\ main'.awaiting = main.awaiting
     /\ ShutdownCalled =>
          /\ main'.awaiting = HandleSet(logs_join_handles)
          /\ logs_join_handles' = <<>>
     /\ main'.awaiting # main.awaiting => ShutdownCalled
     /\ logs_join_handles' # logs_join_handles =>
          ShutdownCalled \/ (SpawnReturns /\ ret'.res = "Ok")]_vars

\* an instance was spawned and stopped; the shutdown of the registry has
\* taken the handle of its log-writer task and awaits it
C36_Witness ==
  /\ svc.op = "shutdown" /\ main.pc = "registry_shutdown"
  /\ ret.op = "stop" /\ ret.child \in main.awaiting
  /\ logs_join_handles = <<>>

\* C37: when spawn(name, args) returns an error, no child process launched
\* by that call is left running: a log file that cannot be opened after the
\* worker was launched leaves no live child outside the registry.
C37_FailedSpawnLeavesNoChild ==
  (ret.op = "spawn" /\ ret.res = "Err" /\ ret.child # 0) =>
    \/ ~children[ret.child].alive
    \/ \E e \in instances : e.handle = ret.child

(***************************************************************************)
(* Claims about the frontend-update requests (checked under SpecUpdate)    *)
(***************************************************************************)
\* C38: an install started by a frontend-update request is always called
\* with force_outdated = true, so it never fails with the outdated-package
\* error (and so can replace the installed version by a lower one).
C38_UpdateAlwaysForces ==
  /\ (InProgress \/ inst.pc = "returned") => inst.force
  /\ inst.result.kind # "PkgOutdated"
  /\ updates.response = "installing" => inst.pc \notin {"new", "idle"}

\* the install of a frontend-update request has replaced the installed
\* version by a strictly lower one
C38_Witness ==
  /\ updates.response = "installing"
  /\ inst.pc = "returned" /\ inst.result = Ok
  /\ inst.prev_installed.some /\ installed.some
  /\ SemverLess(installed.version, inst.prev_installed.version)
  /\ home_manifest = ManifestOf(installed.version)

(***************************************************************************)
(* Claims about the idle trigger and open connections (checked under       *)
(* SpecServer)                                                             *)
(***************************************************************************)
\* the idle shutdown is enabled and its timeout has passed since the most
\* recent accepted connection
IdleTimeoutPassed ==
  /\ Running /\ args.enable_idle_shutdown_timeout
  /\ clock.since_accept >= args.idle_shutdown_timeout

InstallStep ==
  \/ installs'.count = installs.count + 1
  \/ InProgress /\ inst' # inst /\ inst'.pc # "crashed"

\* the step is one of a call whose staged version is not the installed one
\* (before the staged manifest is loaded nothing of the call has a version)
StagedVersionDiffers ==
  \/ inst.pc \in {"idle", "returned", "check_temp"}
  \/ inst.temp_version # installed.version

\* C40: when install_package fails for a staged version different from the
\* installed one, at whatever step, a partial copy of the tree included,
\* every file of the content directory of the installed version is as it
\* was, and get_installed() and get_installed_file resolve to the version
\* installed before: no step but the reload that ends a successful call
\* changes what get_installed() returns, and the steps of a call staging
\* another version leave the content directory of the installed one alone.
C40_FailedInstallKeepsInstalledContent ==
  /\ [][(InstallStep /\ installed.some) =>
          /\ inst'.result # Ok => installed' = installed
          /\ (StagedVersionDiffers /\ ContentDir(installed.version) \in DOMAIN frontend_dir) =>
               /\ ContentDir(installed.version) \in DOMAIN frontend_dir'
               /\ frontend_dir'[ContentDir(installed.version)]
                    = frontend_dir[ContentDir(installed.version)]]_vars
  /\ []((Returned /\ inst.result # Ok) => installed = inst.prev_installed)

\* an install of another version failed in the middle of the copy of its
\* tree: the installed version is the one installed before, its files are
\* those of its package
C40_Witness ==
  /\ Returned /\ HasStep("copy", FALSE) /\ inst.copied # {}
  /\ installed.some /\ installed = inst.prev_installed
  /\ inst.temp_version # installed.version
  /\ ContentDir(inst.temp_version) \in DOMAIN frontend_dir
  /\ InstalledFilePresent(INDEX_FILE_NAME)
  /\ \A f \in DOMAIN frontend_dir[ContentDir(installed.version)] :
       PkgVersion(frontend_dir[ContentDir(installed.version)][f]) = installed.version

====
